---- MODULE Spec2Model ----
(***************************************************************************)
(* io-monitor: the LD_PRELOAD interposition library (io_monitor.c), its    *)
(* record gate and two transports, and the message-queue collector         *)
(* (mq_listener.c).                                                        *)
(*                                                                         *)
(* A thread of the monitored process is a stack of frames, one frame per   *)
(* invocation of an interposed entry point.  A frame runs CHECK_LOADED_FNS,*)
(* the underlying operation, record() and the transport in line; the       *)
(* write() and close() that send_tcp_socket makes are themselves           *)
(* interposed, so they push a nested frame, and so does the call that      *)
(* sync() and syncfs() make to themselves.                                 *)
(*                                                                         *)
(* C strings are sequences of one-character strings; a char* is the empty  *)
(* set (NULL) or the singleton of the string it points to.                 *)
(***************************************************************************)
EXTENDS Integers, Sequences, FiniteSets, TLC

\* ---------------------------------------------------------------- bounds
\* Frames a thread's stack may hold before the process dies of stack overflow.
MaxDepth == 3
\* Messages the System V queue holds before msgsnd(IPC_NOWAIT) fails with EAGAIN.
MaxQueue == 1
\* Cap on the failed_ipc_sends counter explored.
MaxFailedSends == 2
\* Records of the dump that one pass of find_columns reads.
MaxEntries == 6
\* Messages of other senders the queue holds at once.
MaxForeign == 2

\* ------------------------------------------------- taxonomy (domains.h, ops.h)
FILE_SYSTEMS == 3
SYNCS == 5
FILE_SPACE == 8
FILE_WRITE == 11
FILE_READ == 12
FILE_OPEN_CLOSE == 13
START_STOP == 16
END_DOMAINS == 18

OPEN == 0
CLOSE == 1
WRITE == 2
READ == 3
TRUNCATE == 34
SYNC == 4
MOUNT == 22
START == 47
STOP == 48
END_OPS == 55

\* ------------------------------------------------------------ C constants
FD_NONE == -1
MQ_KEY_NONE == -1
STR_LEN == 256
PATH_MAX == 4096
\* sizeof(struct monitor_record_t) on LP64: facility, seven 4-byte fields padded
\* to the 8-byte alignment of size_t, bytes_transferred, s1, s2.
RecordSize == STR_LEN + 32 + 8 + PATH_MAX + STR_LEN
\* size of the 10 byte header send_tcp_socket writes
HeaderSize == 10
\* msgrcv's nbytes in the collector
CollectorBufSize == 256
\* Bytes of a line of text sent to the queue, and a domain code no table has.
TextSize == 40
OutOfTable == 99

NULL == {}
Ptr(str) == {str}
Str(p) == CHOOSE x \in p : TRUE

\* strstr(haystack, needle) != NULL
Strstr(h, n) ==
    \E i \in 0..(Len(h) - Len(n)) : SubSeq(h, i + 1, i + Len(n)) = n

\* Mutant: strncpy alone, which leaves a source of cap or more characters
\* unterminated in the field.
Strncpy_Unterminated(src, cap) ==
    IF Len(src) <= cap THEN src ELSE SubSeq(src, 1, cap)

\* strncpy(dst, src, cap); dst[cap-1] = 0 into a zeroed field
Strncpy(src, cap) ==
    IF Len(src) <= cap - 1 THEN src ELSE SubSeq(src, 1, cap - 1)

\* ------------------------------------------------------------ environment
\* Names of the domains in ordinal order (domains_names.h is not under src/).
domains_names ==
    << "LINKS", "XATTRS", "DIRS", "FILE_SYSTEMS", "FILE_DESCRIPTORS", "SYNCS",
       "SOCKETS", "SEEKS", "FILE_SPACE", "PROCESSES", "FILE_METADATA",
       "FILE_WRITE", "FILE_READ", "FILE_OPEN_CLOSE", "MISC", "DIR_METADATA",
       "START_STOP", "HTTP" >>

\* Values of MONITOR_DOMAINS explored, each as its comma-separated tokens.
DomainLists ==
    { NULL, Ptr(<<"ALL">>), Ptr(<<"all">>),
      Ptr(<<"FILE_OPEN_CLOSE", "BOGUS", "START_STOP">>) }

\* HOST is the machine the process runs on, not a variable of getenv: on
\* "any" host a system call may fail or be slow, on a "healthy" one none
\* is slow and none fails but socket() when the descriptors have run out;
\* an "odd" host is one where /proc may be missing and a command line may
\* be empty, a single byte, or fill the buffer init reads it into.
\* The environments a process is started in: every combination of the
\* options with the socket backend, and the queue backend with a domain list
\* that is absent or names domains, and without an elapsed threshold.
Environments ==
    { e \in [ FACILITY_ID : {NULL},
              MESSAGE_QUEUE_PATH : {NULL, Ptr(<<"/", "q">>)},
              START_ON_OPEN : {NULL, Ptr(<<"t">>)},
              MONITOR_DOMAINS : DomainLists,
              START_ON_ELAPSED : {NULL, Ptr(5)},
              HOST : {"any"} ] :
        e.MESSAGE_QUEUE_PATH # NULL =>
            e.START_ON_ELAPSED = NULL /\ e.MONITOR_DOMAINS # Ptr(<<"ALL">>) }

\* Path arguments the application passes, and what realpath() makes of them.
\* open() is followed with absolute paths, fopen64() also with a relative one.
Paths == { <<"/", "t">>, <<"/", "x">> }
RawPaths == { <<".">>, <<"/", "t">> }
Canon(path) == IF path = <<".">> THEN <<"/", "c">> ELSE path
\* Descriptors the application writes to: a standard stream, and a file that
\* has the number the transport's socket gets while that is open.
FdArgs == {1, 7}
\* Descriptors a successful open returns (1 when stdout had been closed).
OpenFds == {1, 5}
\* Descriptors socket() hands out.
SocketFds == {7, 8}
\* Values an uninitialized int may hold.
Garbage == {0, -1}
Threads == {1, 2}
MainThread == CHOOSE t \in Threads : \A u \in Threads : t <= u

\* ------------------------------------------------------------------ state
VARIABLES
    env,                        \* the process environment (getenv)
    facility,                   \* static char facility[5]
    message_queue_path,
    domain_bit_flags,           \* the set of bits set in the unsigned int
    start_on_open,
    paused,
    have_elapsed_threshold,
    elapsed_threshold,
    orig_open,                  \* "NULL" or "resolved"
    orig_rest,                  \* the other orig_* pointers, assigned after orig_open
    socket_fd,
    failed_socket_connections,
    failed_ipc_sends,
    message_queue_key,
    message_queue_id,
    stack,                      \* per thread: the frames of interposed calls
    errno,                      \* per thread
    phase,                      \* "loaded", "running", "exiting", "exited"
    crashed,                    \* "no" or the reason the process died
    init_runs,                  \* times the body of load_library_functions ran
    mq,                         \* the System V message queue
    delivered,                  \* op types of the lifecycle records a backend took
    coll_pc,                    \* the collector: "start", "loop", "exited"
    coll_log,                   \* what the collector's last receive printed
    dump,                       \* umlmagic: the entries of dump[] read so far
    top_pos,
    columns,                    \* columns[0 .. num_columns - 1]
    next_column,                \* columns[num_columns], the slot a start fills
    num_pri_columns,
    port_to_col,                \* the entries of port_to_col[] assigned so far
    arrows,                     \* arrows[0 .. num_arrows - 1]
    fc_pc,                      \* find_columns: "loop", "break", "done", "undefined"
    out_of_bounds               \* the accesses made outside an array so far

cfgVars == << facility, message_queue_path, domain_bit_flags >>
pauseVars == << start_on_open, paused, have_elapsed_threshold, elapsed_threshold >>
origVars == << orig_open, orig_rest, init_runs >>
sockVars == << socket_fd, failed_socket_connections >>
mqVars == << message_queue_key, message_queue_id, mq, delivered >>
collVars == << coll_pc, coll_log >>
procVars == << phase, crashed >>
tableVars == << dump, top_pos, columns, next_column, num_pri_columns,
               port_to_col, arrows, fc_pc >>
reconVars == << tableVars, out_of_bounds >>
monitorVars == << env, cfgVars, pauseVars, origVars, sockVars, failed_ipc_sends,
                  mqVars, collVars, procVars, stack, errno >>
vars == << monitorVars, reconVars >>

\* A zeroed struct column, as the static table holds before it is written.
ZeroColumn ==
    [ pid |-> 0, ppid |-> 0, command |-> <<>>, exe_fn |-> <<>>,
      mar_top |-> 0, mar_left |-> 0, height |-> 0, primary |-> FALSE ]

\* The statics of io_monitor.c, mq_listener.c and umlmagic.c as the loader
\* leaves them.
Statics ==
    /\ facility = <<>>
    /\ message_queue_path = NULL
    /\ domain_bit_flags = {}
    /\ start_on_open = NULL
    /\ paused = 0
    /\ have_elapsed_threshold = 0
    /\ elapsed_threshold = 0
    /\ orig_open = "NULL"
    /\ orig_rest = "NULL"
    /\ socket_fd = -1
    /\ failed_socket_connections = 0
    /\ failed_ipc_sends = 0
    /\ message_queue_key = -1
    /\ message_queue_id = -1
    /\ stack = [t \in Threads |-> <<>>]
    /\ errno = [t \in Threads |-> "0"]
    /\ phase = "loaded"
    /\ crashed = "no"
    /\ init_runs = 0
    /\ mq = <<>>
    /\ delivered = <<>>
    /\ coll_pc = "start"
    /\ coll_log = [kind |-> "none"]
    /\ dump = <<>>
    /\ top_pos = 200
    /\ columns = <<>>
    /\ next_column = ZeroColumn
    /\ num_pri_columns = 0
    /\ port_to_col = <<>>
    /\ arrows = <<>>
    /\ fc_pc = "loop"
    /\ out_of_bounds = {}

Init == env \in Environments /\ Statics

\* ----------------------------------------------------------------- frames
Top(t) == stack[t][Len(stack[t])]
SetTop(t, f) == [stack EXCEPT ![t][Len(stack[t])] = f]
Push(t, parent, child) ==
    [stack EXCEPT ![t] = Append([@ EXCEPT ![Len(@)] = parent], child)]
At(t, pc) == stack[t] # <<>> /\ Top(t).pc = pc
Alive == crashed = "no" /\ phase # "exited"

\* A frame entering an interposed entry point: fd, s1 and count hold the
\* arguments until the underlying operation has run, then what is handed to record().
\* flags and mode are the further arguments of the open family ("none": not
\* passed), orig_mode the mode the underlying open took; size and nmemb are
\* the arguments of fwrite and fread.
NewFrame(fn, via, fd, s1, count) ==
    [ fn |-> fn, via |-> via, pc |-> "check", fd |-> fd, s1 |-> s1, s2 |-> NULL,
      nbytes |-> count, elapsed |-> 0, error_code |-> "0", ret |-> 0,
      err0 |-> "0", sockfd |-> -1, rc |-> 0,
      flags |-> {}, mode |-> "none", orig_mode |-> "none",
      size |-> 0, nmemb |-> 0 ]

\* The domain and operation each entry point hands to record().
WrapperDom(fn) ==
    CASE fn \in {"open", "open64", "fopen64", "close"} -> FILE_OPEN_CLOSE
      [] fn \in {"write", "fwrite"} -> FILE_WRITE
      [] fn = "fread" -> FILE_READ
      [] fn \in {"truncate", "ftruncate"} -> FILE_SPACE
      [] fn \in {"fsync", "sync", "syncfs"} -> SYNCS
      [] fn = "mount" -> FILE_SYSTEMS
      [] fn \in {"init", "fini"} -> START_STOP

WrapperOp(fn) ==
    CASE fn \in {"open", "open64", "fopen64"} -> OPEN
      [] fn = "close" -> CLOSE
      [] fn \in {"write", "fwrite"} -> WRITE
      [] fn = "fread" -> READ
      [] fn \in {"truncate", "ftruncate"} -> TRUNCATE
      [] fn \in {"fsync", "sync", "syncfs"} -> SYNC
      [] fn = "mount" -> MOUNT
      [] fn = "init" -> START
      [] fn = "fini" -> STOP

\* Calls the application makes.
AppCalls ==
    {[fn |-> "open", fd |-> FD_NONE, s1 |-> Ptr(p), count |-> 0] : p \in Paths}
    \cup {[fn |-> "fopen64", fd |-> FD_NONE, s1 |-> Ptr(p), count |-> 0] : p \in RawPaths}
    \cup {[fn |-> "close", fd |-> 5, s1 |-> NULL, count |-> 0]}
    \cup {[fn |-> "write", fd |-> d, s1 |-> NULL, count |-> 1] : d \in FdArgs}
    \cup {[fn |-> f, fd |-> 5, s1 |-> NULL, count |-> 0] : f \in {"fsync", "syncfs"}}
    \cup {[fn |-> "sync", fd |-> FD_NONE, s1 |-> NULL, count |-> 0]}

\* ------------------------------------------------------- entering a call
\* __attribute__((constructor)) init(), run once by the loader.
CallInit(t) ==
    /\ Alive /\ t = MainThread /\ phase = "loaded" /\ stack[t] = <<>>
    /\ stack' = [stack EXCEPT ![t] = <<NewFrame("init", "app", 0, NULL, 0)>>]
    /\ phase' = "running"
    /\ UNCHANGED << reconVars, env, cfgVars, pauseVars, origVars, sockVars, failed_ipc_sends,
                    mqVars, collVars, crashed, errno >>

\* __attribute__((destructor)) fini(), run once at exit.
CallFini(t) ==
    /\ Alive /\ t = MainThread /\ phase = "running" /\ stack[t] = <<>>
    /\ stack' = [stack EXCEPT ![t] = <<NewFrame("fini", "app", 0, NULL, 0)>>]
    /\ phase' = "exiting"
    /\ UNCHANGED << reconVars, env, cfgVars, pauseVars, origVars, sockVars, failed_ipc_sends,
                    mqVars, collVars, crashed, errno >>

\* Calls explored when two threads run.
ThreadCalls ==
    { [fn |-> "open", fd |-> FD_NONE, s1 |-> Ptr(<<"/", "t">>), count |-> 0],
      [fn |-> "write", fd |-> 7, s1 |-> NULL, count |-> 1] }

\* The application (or a constructor of another library, before init has
\* run) calls an interposed function.
Call(t, calls) ==
    /\ Alive /\ phase \in {"loaded", "running"} /\ stack[t] = <<>>
    /\ \E c \in calls :
          stack' = [stack EXCEPT ![t] =
                      << [NewFrame(c.fn, "app", c.fd, c.s1, c.count) EXCEPT
                            !.s2 = IF "s2" \in DOMAIN c THEN c.s2 ELSE NULL,
                            !.flags = IF "flags" \in DOMAIN c THEN c.flags ELSE {},
                            !.mode = IF "mode" \in DOMAIN c THEN c.mode ELSE "none",
                            !.size = IF "size" \in DOMAIN c THEN c.size ELSE 0,
                            !.nmemb = IF "nmemb" \in DOMAIN c THEN c.nmemb ELSE 0] >>]
    /\ UNCHANGED << reconVars, env, cfgVars, pauseVars, origVars, sockVars, failed_ipc_sends,
                    mqVars, collVars, procVars, errno >>

CallWrapper(t) == Call(t, AppCalls)

\* ------------------------------------------------------- initialization
\* CHECK_LOADED_FNS(): if (NULL == orig_open) initialize_monitor();
CheckLoadedFns(t) ==
    /\ Alive /\ At(t, "check")
    /\ stack' = SetTop(t, [Top(t) EXCEPT !.pc =
                    IF orig_open = "NULL" THEN "init_mon" ELSE "orig"])
    /\ UNCHANGED << reconVars, env, cfgVars, pauseVars, origVars, sockVars, failed_ipc_sends,
                    mqVars, collVars, procVars, errno >>

\* Mutant: only the first token of the list is looked up.
domain_list_to_bit_mask_FirstToken(domain_list) ==
    { i \in 0..(END_DOMAINS - 1) :
        domain_list # <<>> /\ domain_list[1] = domains_names[i + 1] }

\* strtok_r(rest, ",", &rest) over the list, strcmp of each token with
\* domains_names[i], bit_mask |= (1 << i)
domain_list_to_bit_mask(domain_list) ==
    { i \in 0..(END_DOMAINS - 1) :
        \E k \in 1..Len(domain_list) : domain_list[k] = domains_names[i + 1] }

\* domain_bit_flags = -1 sets every bit of the 32-bit unsigned int
AllBits == 0..31

MonitorDomains(monitor_domain_list) ==
    IF monitor_domain_list # NULL
    THEN IF Str(monitor_domain_list) = <<"ALL">>
         THEN AllBits
         ELSE domain_list_to_bit_mask(Str(monitor_domain_list))
    ELSE {}

\* strncpy(facility, facility_id, 4) into the zeroed facility[5], or "u"
FacilityOf(facility_id) ==
    IF facility_id # NULL
    THEN SubSeq(Str(facility_id), 1, IF Len(Str(facility_id)) < 4
                                     THEN Len(Str(facility_id)) ELSE 4)
    ELSE <<"u">>

\* initialize_monitor() up to its call of load_library_functions()
InitializeMonitor(t) ==
    /\ Alive /\ At(t, "init_mon")
    /\ facility' = FacilityOf(env.FACILITY_ID)
    /\ message_queue_path' = env.MESSAGE_QUEUE_PATH
    /\ domain_bit_flags' = MonitorDomains(env.MONITOR_DOMAINS)
    /\ stack' = SetTop(t, [Top(t) EXCEPT !.pc = "llf_check"])
    /\ UNCHANGED << reconVars, env, pauseVars, origVars, sockVars, failed_ipc_sends,
                    mqVars, collVars, procVars, errno >>

\* load_library_functions(): if (NULL != orig_open) return;
LoadCheck(t) ==
    /\ Alive /\ At(t, "llf_check")
    /\ stack' = SetTop(t, [Top(t) EXCEPT !.pc =
                    IF orig_open # "NULL" THEN "orig" ELSE "llf_cfg"])
    /\ UNCHANGED << reconVars, env, cfgVars, pauseVars, origVars, sockVars, failed_ipc_sends,
                    mqVars, collVars, procVars, errno >>

\* atof(start_on_elapsed) > 0.1, the value being in whole milliseconds
ElapsedArmed(start_on_elapsed) == 10 * Str(start_on_elapsed) > 1

\* load_library_functions(): the pause configuration
LoadConfig(t) ==
    /\ Alive /\ At(t, "llf_cfg")
    /\ start_on_open' = env.START_ON_OPEN
    /\ IF env.START_ON_OPEN # NULL
       THEN /\ paused' = 1
            /\ UNCHANGED << have_elapsed_threshold, elapsed_threshold >>
       ELSE IF env.START_ON_ELAPSED # NULL /\ ElapsedArmed(env.START_ON_ELAPSED)
            THEN /\ elapsed_threshold' = Str(env.START_ON_ELAPSED)
                 /\ have_elapsed_threshold' = 1
                 /\ paused' = 1
            ELSE UNCHANGED << paused, have_elapsed_threshold, elapsed_threshold >>
    /\ init_runs' = init_runs + 1
    /\ stack' = SetTop(t, [Top(t) EXCEPT !.pc = "llf_open"])
    /\ UNCHANGED << reconVars, env, cfgVars, orig_open, orig_rest, sockVars, failed_ipc_sends,
                    mqVars, collVars, procVars, errno >>

\* orig_open = dlsym(RTLD_NEXT, "open"), the first pointer assigned
LoadOpen(t) ==
    /\ Alive /\ At(t, "llf_open")
    /\ orig_open' = "resolved"
    /\ stack' = SetTop(t, [Top(t) EXCEPT !.pc = "llf_rest"])
    /\ UNCHANGED << reconVars, env, cfgVars, pauseVars, orig_rest, init_runs, sockVars,
                    failed_ipc_sends, mqVars, collVars, procVars, errno >>

\* the remaining dlsym assignments, orig_open64 to orig_ftruncate
LoadRest(t) ==
    /\ Alive /\ At(t, "llf_rest")
    /\ orig_rest' = "resolved"
    /\ stack' = SetTop(t, [Top(t) EXCEPT !.pc = "orig"])
    /\ UNCHANGED << reconVars, env, cfgVars, pauseVars, orig_open, init_runs, sockVars,
                    failed_ipc_sends, mqVars, collVars, procVars, errno >>

\* ------------------------------------------------ the underlying operation
\* What the underlying operation (and, for the open family, realpath) leaves:
\* the return value, errno ("" when it leaves errno alone) and the arguments
\* the wrapper hands to record().
Outcome(ret, err, fd, s1, s2, nbytes, error_code) ==
    [ ret |-> ret, err |-> err, fd |-> fd, s1 |-> s1, s2 |-> s2,
      nbytes |-> nbytes, error_code |-> error_code ]

\* open(): fd = orig_open(); error_code = errno if fd == -1;
\* real_path = realpath(pathname, NULL), NULL when the file does not exist.
OpenOutcomes(f) ==
    { Outcome(d, "", d, Ptr(Canon(Str(f.s1))), NULL, 0, "0") : d \in OpenFds }
    \cup { Outcome(-1, "ENOENT", -1, NULL, NULL, 0, "ENOENT") }

\* fopen64(): record_path is real_path, or path when realpath failed;
\* fd = fileno(rc) or FD_NONE; the return value is the stream (1) or NULL (0).
Fopen64Outcomes(f) ==
    { Outcome(1, "", 5, Ptr(Canon(Str(f.s1))), Ptr(<<"r">>), 0, "0"),
      Outcome(0, "ENOENT", FD_NONE, f.s1, Ptr(<<"r">>), 0, "ENOENT") }

\* close(), fsync(): rc, error_code = errno if rc != 0
RcOutcomes(f) ==
    { Outcome(0, "", f.fd, NULL, NULL, 0, "0") }
    \cup (IF env.HOST = "healthy" THEN {}
          ELSE { Outcome(-1, "EBADF", f.fd, NULL, NULL, 0, "EBADF") })

\* write(): bytes_written is handed to record() as it is
WriteOutcomes(f) ==
    IF env.HOST = "healthy"
    THEN { Outcome(f.nbytes, "", f.fd, NULL, NULL, f.nbytes, "0") }
    ELSE { Outcome(n, "", f.fd, NULL, NULL, n, "0") :
             n \in {f.nbytes} \cup (IF f.nbytes > 1 THEN {f.nbytes - 1} ELSE {}) }
         \cup { Outcome(-1, "EBADF", f.fd, NULL, NULL, -1, "EBADF") }

\* mount(): rc, error_code = errno if rc != 0; source and target are handed
\* to record() as they came
MountOutcomes(f) ==
    { Outcome(0, "", FD_NONE, f.s1, f.s2, 0, "0"),
      Outcome(-1, "EPERM", FD_NONE, f.s1, f.s2, 0, "EPERM") }

\* The items a stream transfer of nmemb items may return: all, or one less.
ItemsOutcomes(nmemb) == {nmemb} \cup (IF nmemb > 0 THEN {nmemb - 1} ELSE {})

\* fwrite(): rc = orig_fwrite(ptr, size, nmemb, stream);
\* if (rc < nmemb) error_code = 1; record(..., error_code, rc * nmemb)
FwriteOutcomes(f) ==
    { Outcome(rc, IF rc < f.nmemb THEN "ENOSPC" ELSE "", f.fd, NULL, NULL,
              rc * f.nmemb, IF rc < f.nmemb THEN "1" ELSE "0") :
        rc \in ItemsOutcomes(f.nmemb) }

\* fread(): items_read = orig_fread(ptr, size, nmemb, stream);
\* error_code = 1 if items_read < nmemb and ferror(stream);
\* record(..., error_code, items_read * size)
FreadOutcomes(f) ==
    { Outcome(f.nmemb, "", f.fd, NULL, NULL, f.nmemb * f.size, "0") }
    \cup { Outcome(items, IF ferror THEN "EIO" ELSE "", f.fd, NULL, NULL,
                   items * f.size, IF ferror THEN "1" ELSE "0") :
             items \in ItemsOutcomes(f.nmemb) \ {f.nmemb}, ferror \in BOOLEAN }

\* truncate(): error_code = errno if rc != 0, but record() is handed rc in
\* the place of the error code; bytes_written is length, or 0 on failure
TruncateOutcomes(f) ==
    { Outcome(0, "", FD_NONE, f.s1, NULL, f.nbytes, "0"),
      Outcome(-1, "EACCES", FD_NONE, f.s1, NULL, 0, "-1") }

\* ftruncate(): error_code = errno if rc != 0, handed to record()
FtruncateOutcomes(f) ==
    { Outcome(0, "", f.fd, NULL, NULL, f.nbytes, "0"),
      Outcome(-1, "EBADF", f.fd, NULL, NULL, 0, "EBADF") }

\* init(): cmdline[] after sprintf(cmdline, "/proc/%d/cmdline", getpid());
\* the zero byte is the empty string.
ProcPath ==
    << "/", "p", "r", "o", "c", "/", "4", "2", "4", "2", "/",
       "c", "m", "d", "l", "i", "n", "e", "" >>

\* sprintf(cmdline, "could not determine path")
CouldNotDetermine ==
    << "c", "o", "u", "l", "d", " ", "n", "o", "t", " ", "d", "e", "t", "e", "r",
       "m", "i", "n", "e", " ", "p", "a", "t", "h" >>

\* What orig_read(fd, cmdline, PATH_MAX) may return and the bytes it stored:
\* the arguments, each followed by a zero byte; -1 when the open or the read
\* failed.
CmdlineReads ==
    IF env.HOST = "odd"
    THEN { [len |-> -1, bytes |-> <<>>],
           [len |-> 0, bytes |-> <<>>],
           [len |-> 1, bytes |-> << "" >>],
           [len |-> 2, bytes |-> << "p", "" >>],
           [len |-> 4, bytes |-> << "a", "", "b", "" >>],
           [len |-> PATH_MAX, bytes |-> [i \in 1..PATH_MAX |->
                                            IF i % 2 = 0 THEN "" ELSE "a"]] }
    ELSE { [len |-> 3, bytes |-> << "p", "y", "" >>] }

\* cmdline[] after the read: the bytes read over what the buffer held.
CmdlineBuffer(r) ==
    IF r.len <= 0 THEN ProcPath
    ELSE r.bytes \o SubSeq(ProcPath, r.len + 1, Len(ProcPath))

\* while (--len) { if (!cmdline[len]) cmdline[len] = ' '; } entered with len.
\* The first --len gives n.  At n = 0 the body never runs.  From n > 0 the
\* body runs at cmdline[n], cmdline[n - 1], ..., cmdline[1] and the loop ends.
\* From n < 0 the index goes down from n and never meets 0: the first access
\* is already outside the buffer (outside = TRUE).
CmdlineLoop(buf, len) ==
    LET n == len - 1 IN
    IF n = 0 THEN [buf |-> buf, outside |-> FALSE]
    ELSE IF n < 0 \/ n >= PATH_MAX THEN [buf |-> buf, outside |-> TRUE]
    ELSE [buf |-> [i \in 1..Len(buf) |->
                      IF (i - 1) \in 1..n /\ buf[i] = "" THEN " " ELSE buf[i]],
          outside |-> FALSE]

\* The C string a buffer holds: the characters before its first zero byte.
CString(buf) ==
    LET zeros == { i \in 1..Len(buf) : buf[i] = "" } IN
    IF zeros = {} THEN buf
    ELSE SubSeq(buf, 1, (CHOOSE i \in zeros : \A j \in zeros : i <= j) - 1)

\* init(): if (len) { len--; the loop } else the fixed text; cmdline is
\* handed to record().  Once the loop has left the buffer the behaviour is
\* undefined: the process dies, or goes on with the buffer as it is.
InitOutcomes(f) ==
    UNION { LET looped == IF r.len = 0
                          THEN [buf |-> CouldNotDetermine, outside |-> FALSE]
                          ELSE CmdlineLoop(CmdlineBuffer(r), r.len - 1)
                o == Outcome(r.len, IF r.len = -1 THEN "EBADF" ELSE "", 0,
                             Ptr(CString(looped.buf)), NULL, 0, "0")
            IN  { [ ret |-> o.ret, err |-> o.err, fd |-> o.fd, s1 |-> o.s1,
                    s2 |-> o.s2, nbytes |-> o.nbytes, error_code |-> o.error_code,
                    outside |-> looped.outside, dies |-> d ] :
                      d \in (IF looped.outside THEN BOOLEAN ELSE {FALSE}) } :
            r \in CmdlineReads }

\* fini(): nothing
FiniOutcomes(f) == { Outcome(0, "", 0, NULL, NULL, 0, "0") }

Outcomes(f) ==
    CASE f.fn \in {"open", "open64"} -> OpenOutcomes(f)
      [] f.fn = "fopen64" -> Fopen64Outcomes(f)
      [] f.fn \in {"close", "fsync"} -> RcOutcomes(f)
      [] f.fn = "write" -> WriteOutcomes(f)
      [] f.fn = "mount" -> MountOutcomes(f)
      [] f.fn = "fwrite" -> FwriteOutcomes(f)
      [] f.fn = "fread" -> FreadOutcomes(f)
      [] f.fn = "truncate" -> TruncateOutcomes(f)
      [] f.fn = "ftruncate" -> FtruncateOutcomes(f)
      [] f.fn = "init" -> InitOutcomes(f)
      [] f.fn = "fini" -> FiniOutcomes(f)

\* Elapsed times of the underlying call, in milliseconds: a write may be slow.
Elapsed(fn) == IF fn = "write" /\ env.HOST = "any" THEN {0, 9} ELSE {0}

\* Values the third argument slot may hold when the caller of a variadic
\* function passed no third argument.
GarbageModes == {"0000", "0777"}

\* Mutant: the wrapper forwards the caller's mode.
ModesReceived_Forwarded(f) ==
    IF f.fn \in {"open", "open64"} /\ "O_CREAT" \in f.flags THEN {f.mode} ELSE {"none"}

\* orig_open(pathname, flags), orig_open64(pathname, flags): the wrapper
\* passes no mode; with O_CREAT the underlying open takes one from the
\* argument slot all the same, which holds the caller's mode or anything else.
ModesReceived(f) ==
    IF f.fn \in {"open", "open64"} /\ "O_CREAT" \in f.flags
    THEN {f.mode} \cup GarbageModes
    ELSE {"none"}

\* Entry points whose body calls the interposed symbol itself instead of orig_*.
CallsItself(fn) == fn \in {"sync", "syncfs"}

\* Entry points that call through a pointer assigned after orig_open.
UsesRest(fn) ==
    fn \in {"open64", "fopen64", "close", "write", "fsync", "mount", "init",
            "fwrite", "fread", "truncate", "ftruncate"}

\* The wrapper's call of the underlying operation, up to its call of record().
Orig(t) ==
    /\ Alive /\ At(t, "orig")
    /\ LET f == Top(t) IN
       IF CallsItself(f.fn)
       THEN /\ IF Len(stack[t]) < MaxDepth
               THEN /\ stack' = Push(t, [f EXCEPT !.pc = "self_wait"],
                                     NewFrame(f.fn, "self", f.fd, NULL, 0))
                    /\ UNCHANGED crashed
               ELSE /\ crashed' = "stack_overflow"
                    /\ UNCHANGED stack
            /\ UNCHANGED << errno, out_of_bounds >>
       ELSE IF UsesRest(f.fn) /\ orig_rest = "NULL"
       THEN /\ crashed' = "null_function_pointer"
            /\ UNCHANGED << stack, errno, out_of_bounds >>
       ELSE \E o \in Outcomes(f), e \in Elapsed(f.fn), m \in ModesReceived(f) :
              LET outside == "outside" \in DOMAIN o /\ o.outside
                  dies == outside /\ o.dies
              IN  /\ stack' = IF dies THEN stack
                              ELSE SetTop(t, [f EXCEPT
                        !.orig_mode = m,
                        !.pc = "rec", !.ret = o.ret, !.fd = o.fd, !.s1 = o.s1,
                        !.s2 = o.s2, !.nbytes = o.nbytes, !.elapsed = e,
                        !.error_code = o.error_code,
                        !.err0 = IF o.err = "" THEN errno[t] ELSE o.err])
                  /\ errno' = IF o.err = "" \/ dies THEN errno
                              ELSE [errno EXCEPT ![t] = o.err]
                  /\ crashed' = IF dies THEN "cmdline_index" ELSE crashed
                  /\ out_of_bounds' = IF outside THEN out_of_bounds \cup {"cmdline"}
                                      ELSE out_of_bounds
    /\ UNCHANGED << tableVars, env, cfgVars, pauseVars, origVars, sockVars, failed_ipc_sends,
                    mqVars, collVars, phase >>

\* --------------------------------------------------------------- record()
\* Mutant: the breaker trips on any failed delivery.
BreakerTripped_OnFailedSend == failed_ipc_sends > 0

\* Mutant: record() without the breaker check.
BreakerTripped_Never == FALSE

\* if (failed_socket_connections > 0) return;
BreakerTripped == failed_socket_connections > 0

\* Mutant: record() without the check for the transport's own descriptor.
SelfExcluded_Never(fd) == FALSE

\* if ((socket_fd != FD_NONE) && (fd == socket_fd)) return;
SelfExcluded(fd) == socket_fd # FD_NONE /\ fd = socket_fd

\* Mutant: record() without the check for the standard streams.
StdFdExcluded_Never(dom_type, fd) == FALSE

\* Mutant: the standard streams excluded for the lifecycle domain too.
StdFdExcluded_AllDomains(dom_type, fd) == fd > -1 /\ fd < 3

\* if ((fd > -1) && (fd < 3) && dom_type != START_STOP) return;
StdFdExcluded(dom_type, fd) == fd > -1 /\ fd < 3 /\ dom_type # START_STOP

\* Mutant: record() without the domain filter.
DomainEnabled_Always(dom_type) == TRUE

\* 0 != (domain_bit_flags & (1 << dom_type))
DomainEnabled(dom_type) == dom_type \in domain_bit_flags

\* !strcmp(s1, ".") or !strcmp(s1, "..")
IsDotPath(s1) == Str(s1) = <<".">> \/ Str(s1) = <<".", ".">>

\* Mutant: the path compared with strcmp instead of searched with strstr.
StartOnOpenFires_Exact(s1) ==
    paused = 1 /\ start_on_open # NULL /\ Str(s1) = Str(start_on_open)

\* paused && (start_on_open != NULL) && (strstr(s1, start_on_open) != NULL)
StartOnOpenFires(s1) ==
    paused = 1 /\ start_on_open # NULL /\ Strstr(Str(s1), Str(start_on_open))

\* paused && have_elapsed_threshold && (elapsed_time > elapsed_threshold),
\* p being the pause flag after the open trigger
StartOnElapsedFires(p, elapsed_time) ==
    p = 1 /\ have_elapsed_threshold = 1 /\ elapsed_time > elapsed_threshold

\* The pause flag after record() has evaluated both triggers.
PausedAfterTriggers(op_type, s1, elapsed_time) ==
    LET p1 == IF op_type = OPEN /\ StartOnOpenFires(s1) THEN 0 ELSE paused
    IN  IF StartOnElapsedFires(p1, elapsed_time) THEN 0 ELSE p1

\* How far record() gets with a candidate event: "return" at one of the
\* early returns, "segv" where strcmp reads through a NULL s1, "paused" at
\* the return of a still paused gate, "send" when the record is dispatched.
RecordVerdict(dom_type, op_type, fd, s1, elapsed_time) ==
    IF BreakerTripped THEN "return"
    ELSE IF SelfExcluded(fd) THEN "return"
    ELSE IF StdFdExcluded(dom_type, fd) THEN "return"
    ELSE IF ~DomainEnabled(dom_type) THEN "return"
    ELSE IF op_type = OPEN /\ s1 = NULL THEN "segv"
    ELSE IF op_type = OPEN /\ IsDotPath(s1) THEN "return"
    ELSE IF PausedAfterTriggers(op_type, s1, elapsed_time) = 1 THEN "paused"
    ELSE "send"

\* Mutant: every record goes to the socket backend.
UsesQueue_Never == FALSE

\* if (message_queue_path != NULL) send_msg_queue else send_tcp_socket
UsesQueue == message_queue_path # NULL

\* record() from its entry to the choice of the backend
Record(t) ==
    /\ Alive /\ At(t, "rec")
    /\ LET f == Top(t)
           dom == WrapperDom(f.fn)
           op == WrapperOp(f.fn)
           v == RecordVerdict(dom, op, f.fd, f.s1, f.elapsed)
       IN  /\ crashed' = IF v = "segv" THEN "null_string" ELSE crashed
           /\ paused' = IF v \in {"paused", "send"}
                        THEN PausedAfterTriggers(op, f.s1, f.elapsed)
                        ELSE paused
           /\ stack' = IF v = "segv" THEN stack
                       ELSE SetTop(t, [f EXCEPT !.pc =
                              IF v = "send"
                              THEN IF UsesQueue
                                   THEN "mq_send" ELSE "tcp_socket"
                              ELSE "ret"])
    /\ UNCHANGED << reconVars, env, cfgVars, start_on_open, have_elapsed_threshold,
                    elapsed_threshold, origVars, sockVars, failed_ipc_sends,
                    mqVars, collVars, phase, errno >>

\* The value a ssize_t takes in the size_t field: k * 2^64 + r
SizeT(n) == [k |-> IF n < 0 THEN 1 ELSE 0, r |-> n]

\* RECORD_FIELD_S: the field stays zeroed when the source is NULL
StringField(s, cap) == IF s = NULL THEN <<>> ELSE Strncpy(Str(s), cap)

\* bzero(&record_output) and the RECORD_FIELD assignments
RecordOutput(f) ==
    [ facility |-> Strncpy(facility, STR_LEN),
      timestamp |-> 1500000000,
      elapsed_time |-> f.elapsed,
      pid |-> 4242,
      dom_type |-> WrapperDom(f.fn),
      op_type |-> WrapperOp(f.fn),
      error_code |-> f.error_code,
      fd |-> f.fd,
      bytes_transferred |-> SizeT(f.nbytes),
      s1 |-> StringField(f.s1, PATH_MAX),
      s2 |-> StringField(f.s2, STR_LEN) ]

\* The lifecycle records (START_STOP) a backend has accepted from this
\* process, in order: msgsnd returned 0, or write() took the whole record.
Delivering(f, accepted) ==
    IF accepted /\ WrapperDom(f.fn) = START_STOP
    THEN Append(delivered, WrapperOp(f.fn))
    ELSE delivered

\* if (rc_ipc != 0) failed_ipc_sends++;
CountSend(rc_ipc) ==
    /\ rc_ipc # 0 => failed_ipc_sends < MaxFailedSends
    /\ failed_ipc_sends' = IF rc_ipc # 0 THEN failed_ipc_sends + 1
                           ELSE failed_ipc_sends

\* ------------------------------------------------------- send_msg_queue()
\* The whole of send_msg_queue and the accounting of its result in record().
SendMsgQueue(t) ==
    /\ Alive /\ At(t, "mq_send")
    /\ \E ftok \in {-1, 77}, msgget \in {-1, 3} :
         LET f == Top(t)
             derive == message_queue_key = MQ_KEY_NONE /\ message_queue_path # NULL
             key == IF derive THEN ftok ELSE message_queue_key
             id == IF derive /\ key # -1 THEN msgget ELSE message_queue_id
             full == Len(mq) >= MaxQueue
             rc == IF id = MQ_KEY_NONE \/ full THEN -1 ELSE 0
         IN  /\ message_queue_key' = key
             /\ message_queue_id' = id
             /\ mq' = IF rc = 0
                      THEN Append(mq, [size |-> RecordSize, rec |-> RecordOutput(f)])
                      ELSE mq
             /\ delivered' = Delivering(f, rc = 0)
             /\ errno' = IF derive /\ key = -1 THEN [errno EXCEPT ![t] = "ENOENT"]
                         ELSE IF derive /\ id = -1 THEN [errno EXCEPT ![t] = "EACCES"]
                         ELSE IF id # MQ_KEY_NONE /\ full
                              THEN [errno EXCEPT ![t] = "EAGAIN"]
                         ELSE errno
             /\ CountSend(rc)
             /\ stack' = SetTop(t, [f EXCEPT !.pc = "ret", !.rc = rc])
    /\ UNCHANGED << reconVars, env, cfgVars, pauseVars, origVars, sockVars, collVars, procVars >>

\* ------------------------------------------------------ send_tcp_socket()
\* What socket() may return: -1, or the lowest free descriptor, which is 0
\* when the application has closed its standard input.
SocketResults ==
    LET free == { d \in SocketFds : \A u \in Threads : \A i \in 1..Len(stack[u]) :
                      stack[u][i].sockfd # d }
    IN  IF env.HOST = "healthy" /\ free # {}
        THEN { d \in free : \A e \in free : d <= e }
        ELSE {-1, 0} \cup { d \in free : \A e \in free : d <= e }

\* sockfd = socket(...); if (sockfd > 0) { ...; socket_fd = sockfd;
\* otherwise rc is returned as it was left, uninitialized.
TcpSocket(t) ==
    /\ Alive /\ At(t, "tcp_socket")
    /\ \E sockfd \in SocketResults, garbage \in Garbage :
         LET f == Top(t) IN
         IF sockfd > 0
         THEN /\ socket_fd' = sockfd
              /\ stack' = SetTop(t, [f EXCEPT !.pc = "tcp_connect", !.sockfd = sockfd])
              /\ UNCHANGED << errno, failed_ipc_sends >>
         ELSE /\ errno' = IF sockfd = -1 THEN [errno EXCEPT ![t] = "EMFILE"]
                         ELSE errno
              /\ CountSend(garbage)
              /\ stack' = SetTop(t, [f EXCEPT !.pc = "ret", !.rc = garbage,
                                              !.sockfd = sockfd])
              /\ UNCHANGED socket_fd
    /\ UNCHANGED << reconVars, env, cfgVars, pauseVars, origVars, failed_socket_connections,
                    mqVars, collVars, procVars >>

\* rc = connect(sockfd, ...); on failure failed_socket_connections++, rc = -1
TcpConnect(t) ==
    /\ Alive /\ At(t, "tcp_connect")
    /\ \E connected \in (IF env.HOST = "healthy" THEN {TRUE} ELSE BOOLEAN) :
         LET f == Top(t) IN
         IF connected
         THEN /\ stack' = SetTop(t, [f EXCEPT !.pc = "tcp_hdr", !.rc = 0])
              /\ UNCHANGED << errno, failed_socket_connections >>
         ELSE /\ failed_socket_connections' = failed_socket_connections + 1
              /\ errno' = [errno EXCEPT ![t] = "ECONNREFUSED"]
              /\ stack' = SetTop(t, [f EXCEPT !.pc = "tcp_close", !.rc = -1])
    /\ UNCHANGED << reconVars, env, cfgVars, pauseVars, origVars, socket_fd, failed_ipc_sends,
                    mqVars, collVars, procVars >>

\* The transport calls the interposed write() or close() on its socket.
TransportCall(t, at, fn, count, wait) ==
    /\ Alive /\ At(t, at) /\ Len(stack[t]) < MaxDepth
    /\ stack' = Push(t, [Top(t) EXCEPT !.pc = wait],
                     NewFrame(fn, "transport", Top(t).sockfd, NULL, count))
    /\ UNCHANGED << reconVars, env, cfgVars, pauseVars, origVars, sockVars, failed_ipc_sends,
                    mqVars, collVars, procVars, errno >>

\* rc = write(sockfd, msg_size_header, 10);
TcpWriteHeader(t) == TransportCall(t, "tcp_hdr", "write", HeaderSize, "tcp_hdr_wait")

\* rc = write(sockfd, monitor_record, record_length);
TcpWriteRecord(t) == TransportCall(t, "tcp_body", "write", RecordSize, "tcp_body_wait")

\* close(sockfd);
TcpClose(t) == TransportCall(t, "tcp_close", "close", 0, "tcp_close_wait")

\* send_tcp_socket after the call it waited for has returned ret.
Resume(parent, ret) ==
    CASE parent.pc = "tcp_hdr_wait" ->
            IF ret = HeaderSize THEN [parent EXCEPT !.pc = "tcp_body", !.rc = ret]
            ELSE [parent EXCEPT !.pc = "tcp_close", !.rc = -1]
      [] parent.pc = "tcp_body_wait" ->
            [parent EXCEPT !.pc = "tcp_close",
                           !.rc = IF ret = RecordSize THEN 0 ELSE -1]
      [] parent.pc = "tcp_close_wait" ->
            [parent EXCEPT !.pc = "ret", !.sockfd = -1]
      [] parent.pc = "self_wait" -> [parent EXCEPT !.pc = "rec"]

\* An entry point returns: to the application, which reads errno and clears
\* it before its next call, or into the call that made it.
Return(t) ==
    /\ Alive /\ At(t, "ret")
    /\ LET f == Top(t)
           n == Len(stack[t])
       IN  IF n = 1
           THEN /\ stack' = [stack EXCEPT ![t] = <<>>]
                /\ phase' = IF f.fn = "fini" THEN "exited" ELSE phase
                /\ errno' = [errno EXCEPT ![t] = "0"]
                /\ UNCHANGED << socket_fd, failed_ipc_sends, delivered >>
           ELSE LET parent == stack[t][n - 1]
                    closed == parent.pc = "tcp_close_wait"
                IN  /\ stack' = [stack EXCEPT ![t] =
                            [SubSeq(@, 1, n - 1) EXCEPT ![n - 1] = Resume(parent, f.ret)]]
                    /\ socket_fd' = IF closed THEN FD_NONE ELSE socket_fd
                    /\ IF closed THEN CountSend(parent.rc)
                       ELSE UNCHANGED failed_ipc_sends
                    /\ delivered' = Delivering(parent, parent.pc = "tcp_body_wait"
                                                           /\ f.ret = RecordSize)
                    /\ UNCHANGED << phase, errno >>
    /\ UNCHANGED << reconVars, env, cfgVars, pauseVars, origVars, failed_socket_connections,
                    message_queue_key, message_queue_id, mq, collVars, crashed >>

\* ----------------------------------------------------- mq_listener.c
\* The payload read as the C string print_log_entry scans, commas turned to
\* blanks and split at white space: a token is a number or a word.  The
\* payload of a record begins with its facility field, and the string ends
\* at that field's first zero byte.
PayloadTokens(m) ==
    IF "text" \in DOMAIN m THEN m.text
    ELSE IF m.rec.facility = <<>> THEN <<>>
    ELSE << [num |-> FALSE, v |-> m.rec.facility] >>

\* sscanf(data, "%s %d %f %d %d %d %d %d %zu %s", ...): the conversions stop
\* at the first token that is missing or not of the converted type.
Scanned(tokens) ==
    LET fits(k) == k <= Len(tokens) /\ (k \in 2..9 => tokens[k].num)
        ks == { k \in 0..10 : \A j \in 1..k : fits(j) }
    IN  CHOOSE k \in ks : \A j \in ks : j <= k

\* print_log_entry: the fields printed; a local that no conversion assigned
\* is printed as it was left, dom_type and op_type 0, the others indeterminate.
print_log_entry(tokens) ==
    LET n == Scanned(tokens)
        field(k, unset) == IF k <= n THEN tokens[k].v ELSE unset
    IN  [ facility |-> field(1, "indeterminate"),
          timestamp |-> field(2, "indeterminate"),
          elapsed_time |-> field(3, "indeterminate"),
          pid |-> field(4, "indeterminate"),
          dom_type |-> field(5, 0),
          op_type |-> field(6, 0),
          error_code |-> field(7, "indeterminate"),
          fd |-> field(8, "indeterminate"),
          bytes_transferred |-> field(9, "indeterminate"),
          s1 |-> field(10, "indeterminate") ]

\* domains_names[dom_type] and ops_names[op_type] are inside their tables
NamesInTables(line) ==
    /\ line.dom_type >= 0 /\ line.dom_type < END_DOMAINS
    /\ line.op_type >= 0 /\ line.op_type < END_OPS

\* main(): ftok and msgget, exit(1) when either fails
CollectorAttach ==
    /\ coll_pc = "start" /\ env.MESSAGE_QUEUE_PATH # NULL
    /\ \E attached \in BOOLEAN : coll_pc' = IF attached THEN "loop" ELSE "exited"
    /\ UNCHANGED << reconVars, env, cfgVars, pauseVars, origVars, sockVars, failed_ipc_sends,
                    mqVars, coll_log, procVars, stack, errno >>

\* One turn of the loop: msgrcv(id, &msg, 256, 0, 0) blocks on an empty queue
\* and, MSG_NOERROR not being given, fails with E2BIG on a longer message,
\* which it leaves on the queue.
CollectorReceive ==
    /\ coll_pc = "loop" /\ mq # <<>>
    /\ LET m == Head(mq)
           line == print_log_entry(PayloadTokens(m))
       IN
       IF m.size > CollectorBufSize
       THEN /\ coll_log' = [kind |-> "error", rc |-> -1, errno |-> "E2BIG"]
            /\ UNCHANGED << mq, coll_pc >>
       ELSE IF m.size = 0
       THEN /\ coll_log' = [kind |-> "error", rc |-> 0, errno |-> "unchanged"]
            /\ mq' = Tail(mq)
            /\ UNCHANGED coll_pc
       ELSE IF NamesInTables(line)
       THEN /\ coll_log' = [kind |-> "entry", of |-> m.rec, line |-> line]
            /\ mq' = Tail(mq)
            /\ UNCHANGED coll_pc
       ELSE /\ mq' = Tail(mq)
            /\ \E outcome \in {"printed", "crashed"} :
                  IF outcome = "printed"
                  THEN /\ coll_log' = [kind |-> "entry", of |-> m.rec,
                                        line |-> [line EXCEPT !.dom_type = "indeterminate",
                                                              !.op_type = "indeterminate"]]
                       /\ UNCHANGED coll_pc
                  ELSE /\ coll_pc' = "crashed"
                       /\ UNCHANGED coll_log
    /\ UNCHANGED << reconVars, env, cfgVars, pauseVars, origVars, sockVars, failed_ipc_sends,
                    message_queue_key, message_queue_id, delivered, procVars,
                    stack, errno >>

\* msgrcv fails while the queue is empty (a signal, the queue removed): the
\* else branch prints rc and errno.
CollectorInterrupted ==
    /\ coll_pc = "loop" /\ mq = <<>>
    /\ \E e \in {"EINTR", "EIDRM"} :
          coll_log' = [kind |-> "error", rc |-> -1, errno |-> e]
    /\ UNCHANGED << reconVars, env, cfgVars, pauseVars, origVars, sockVars, failed_ipc_sends,
                    mqVars, coll_pc, procVars, stack, errno >>

\* The messages another process puts on the queue (the collector creates it
\* with mode 0664): text in the format print_log_entry parses, complete,
\* cut short, or naming a domain outside the table; an empty message; a
\* block of the size of a record.
Token(num, v) == [num |-> num, v |-> v]
TextPayloads ==
    LET head == << Token(FALSE, << "u" >>), Token(TRUE, 1500000000), Token(TRUE, 0),
                   Token(TRUE, 4242) >>
        tail == << Token(TRUE, OPEN), Token(TRUE, 0), Token(TRUE, 5), Token(TRUE, 0),
                   Token(FALSE, << "/", "t" >>) >>
    IN  { head \o << Token(TRUE, FILE_OPEN_CLOSE) >> \o tail,
          head \o << Token(TRUE, OutOfTable) >> \o tail,
          SubSeq(head, 1, 2) \o << Token(FALSE, << "x" >>) >> }
ForeignMessages ==
    { [size |-> TextSize, rec |-> "text", text |-> t] : t \in TextPayloads }
    \cup { [size |-> 0, rec |-> "text", text |-> <<>>],
           [size |-> RecordSize, rec |-> "text", text |-> <<>>] }

\* msgsnd by another process
ForeignSend ==
    /\ coll_pc # "start" /\ Len(mq) < MaxForeign
    /\ \E m \in ForeignMessages : mq' = Append(mq, m)
    /\ UNCHANGED << reconVars, env, cfgVars, pauseVars, origVars, sockVars, failed_ipc_sends,
                    message_queue_key, message_queue_id, delivered, collVars, procVars,
                    stack, errno >>

\* ------------------------------------------- umlmagic.c: find_columns()
\* The reconstructor is a program of its own: it reads the array of records
\* dump[] in stored order and builds the Column and Arrow tables.
BIND == 46
CONNECT == 43
MAX_COLUMNS == 4096
MAX_ARROWS == 4096
MAIN_COL_SEP == 30
COL_WIDTH == 10

DigitChars == << "0", "1", "2", "3", "4", "5", "6", "7", "8", "9" >>
IsDigit(c) == \E d \in 1..10 : DigitChars[d] = c
DigitValue(c) == (CHOOSE d \in 1..10 : DigitChars[d] = c) - 1

RECURSIVE SkipSpace(_, _)
SkipSpace(s, i) == IF i <= Len(s) /\ s[i] = " " THEN SkipSpace(s, i + 1) ELSE i

RECURSIVE ScanDigits(_, _, _)
ScanDigits(s, i, acc) ==
    IF i <= Len(s) /\ IsDigit(s[i])
    THEN ScanDigits(s, i + 1, 10 * acc + DigitValue(s[i]))
    ELSE [v |-> acc, i |-> i]

\* One %d conversion at position i: white space, an optional sign, digits.
ScanInt(s, i) ==
    LET j == SkipSpace(s, i)
        neg == j <= Len(s) /\ s[j] = "-"
        k == IF j <= Len(s) /\ s[j] \in {"-", "+"} THEN j + 1 ELSE j
        r == ScanDigits(s, k, 0)
    IN  [ok |-> r.i > k, v |-> IF neg THEN 0 - r.v ELSE r.v, i |-> r.i]

\* atoi(): 0 when the string does not start with a number
Atoi(s) == LET r == ScanInt(s, 1) IN IF r.ok THEN r.v ELSE 0

AddressSeparators == << ".", ".", ".", ":" >>

\* sscanf(s1, "%d.%d.%d.%d:%d", &i1, &i2, &i3, &i4, &port): the values
\* converted before the first conversion or literal that does not match.
RECURSIVE ScanAddress(_, _, _, _)
ScanAddress(s, i, k, got) ==
    LET r == ScanInt(s, i) IN
    IF ~r.ok THEN got
    ELSE IF k = 5 THEN Append(got, r.v)
    ELSE IF r.i <= Len(s) /\ s[r.i] = AddressSeparators[k]
         THEN ScanAddress(s, r.i + 1, k + 1, Append(got, r.v))
         ELSE Append(got, r.v)

\* strtok_r(tmp, "/", &tmp) over the copy of s1: the non-empty tokens
RECURSIVE SplitOnSlash(_, _, _)
SplitOnSlash(s, i, cur) ==
    LET done == IF cur = <<>> THEN <<>> ELSE << cur >> IN
    IF i > Len(s) THEN done
    ELSE IF s[i] = "/" THEN done \o SplitOnSlash(s, i + 1, <<>>)
    ELSE SplitOnSlash(s, i + 1, Append(cur, s[i]))

\* exe_fn: the first token of s1, blanks taken as '/', that contains "swift"
ExeFn(s1) ==
    LET copy == [i \in 1..Len(s1) |-> IF s1[i] = " " THEN "/" ELSE s1[i]]
        toks == SplitOnSlash(copy, 1, <<>>)
        hits == { k \in 1..Len(toks) : Strstr(toks[k], << "s", "w", "i", "f", "t" >>) }
    IN  IF hits = {} THEN <<>>
        ELSE toks[CHOOSE k \in hits : \A j \in hits : k <= j]

\* The records of the dump: the s1 of a start is the command line and its s2
\* the parent pid; the s1 of a bind or connect is the address.
CmdPython == << "p", "y", "t", "h", "o", "n", " ", "a", "p", "p", ".", "p", "y" >>
CmdShell == << "s", "h", " ", "-", "c", " ", ".", ".", "." >>
AddrAny == << "0", ".", "0", ".", "0", ".", "0", ":", "9", "0", "0", "0" >>
AddrLoopback == << "1", "2", "7", ".", "0", ".", "0", ".", "1", ":", "9", "0", "0", "0" >>
DumpEntry(op_type, pid, s1, s2) ==
    [op_type |-> op_type, pid |-> pid, s1 |-> s1, s2 |-> s2]
DumpEntries ==
    { DumpEntry(START, 10, CmdPython, << "1" >>),
      DumpEntry(START, 11, CmdShell, << "1", "0" >>),
      DumpEntry(BIND, 10, AddrAny, <<>>),
      DumpEntry(CONNECT, 11, AddrLoopback, <<>>),
      DumpEntry(STOP, 11, <<>>, <<>>),
      DumpEntry(STOP, 10, <<>>, <<>>),
      DumpEntry(WRITE, 10, <<>>, <<>>) }

num_columns == Len(columns)
num_arrows == Len(arrows)

\* find_col_by_pid: the first index whose Column has the pid, or -1
find_col_by_pid(pid) ==
    LET found == { i \in 1..num_columns : columns[i].pid = pid } IN
    IF found = {} THEN -1
    ELSE (CHOOSE i \in found : \A j \in found : i <= j) - 1

\* The values columns[cid] can yield: the Column, the slot after the last
\* Column, a slot never written, or, outside the table, whatever the memory
\* there holds.
ColumnAt(cid) ==
    IF cid >= 0 /\ cid < num_columns THEN { columns[cid + 1] }
    ELSE IF cid = num_columns THEN { next_column }
    ELSE IF cid > num_columns /\ cid < MAX_COLUMNS THEN { ZeroColumn }
    ELSE { [ZeroColumn EXCEPT !.mar_top = g, !.mar_left = h] :
              g \in Garbage, h \in Garbage }

\* The access an index cid makes outside the table columns[MAX_COLUMNS].
Outside(cid, what) == IF cid >= 0 /\ cid < MAX_COLUMNS THEN {} ELSE {what}

\* The accesses of one step: once the pass has read or written outside a
\* table its behaviour is undefined, and it is followed no further.
Accessed(outside) ==
    /\ out_of_bounds' = out_of_bounds \cup outside
    /\ fc_pc' = IF outside = {} THEN fc_pc ELSE "undefined"

\* port_to_col[port] of the zero-initialised table
PortToCol(port) == IF port \in DOMAIN port_to_col THEN port_to_col[port] ELSE 0

\* The next record of the dump is read: ++i and top_pos++.
ReadEntry(e) ==
    /\ fc_pc = "loop" /\ Len(dump) < MaxEntries
    /\ dump' = Append(dump, e)
    /\ UNCHANGED monitorVars

\* Mutant: every process taken for a primary one.
PriCol_Always(s1) == TRUE

\* pri_col: the command names python
PriCol(s1) == Strstr(s1, << "p", "y", "t", "h", "o", "n" >>)

\* invisible: the command contains "sh"
Invisible(s1) == Strstr(s1, << "s", "h" >>)

\* op_type == START: a Column is filled in at columns[num_columns] and kept
\* unless it is secondary and its parent has no Column.
FcStart ==
    \E e \in DumpEntries :
        /\ e.op_type = START
        /\ ReadEntry(e)
        /\ IF num_columns = MAX_COLUMNS
           THEN /\ fc_pc' = "break"
                /\ top_pos' = top_pos + 1
                /\ UNCHANGED << columns, next_column, num_pri_columns,
                                port_to_col, arrows, out_of_bounds >>
           ELSE LET pri_col == PriCol(e.s1)
                    invisible == Invisible(e.s1)
                    ppid == Atoi(e.s2)
                    parent == find_col_by_pid(ppid)
                IN  \E from \in (IF pri_col THEN {ZeroColumn} ELSE ColumnAt(parent)) :
                    LET filled ==
                          [next_column EXCEPT
                              !.pid = e.pid, !.ppid = ppid, !.command = e.s1,
                              !.mar_top = top_pos + 1,
                              !.mar_left =
                                  IF pri_col
                                  THEN MAIN_COL_SEP \div 2 + MAIN_COL_SEP * num_pri_columns
                                  ELSE from.mar_left + (COL_WIDTH * 2) \div 3,
                              !.exe_fn = ExeFn(e.s1)]
                    IN  /\ top_pos' = top_pos + 1
                        /\ Accessed(IF pri_col THEN {}
                                    ELSE Outside(parent, "start_parent"))
                        /\ IF ~pri_col /\ parent = -1
                           THEN /\ next_column' = filled
                                /\ UNCHANGED << columns, num_pri_columns >>
                           ELSE /\ columns' = Append(columns,
                                       [filled EXCEPT
                                           !.height = IF invisible THEN 5 ELSE 0,
                                           !.primary = pri_col])
                                /\ next_column' = ZeroColumn
                                /\ num_pri_columns' =
                                       IF pri_col THEN num_pri_columns + 1
                                       ELSE num_pri_columns
                        /\ UNCHANGED << port_to_col, arrows >>

\* Mutant: the height of a stopped Column without the minimum.
FinalHeight_Elapsed(height) == height

\* if (height < 10) height = 10;
FinalHeight(height) == IF height < 10 THEN 10 ELSE height

\* if (height < 10) top_pos += 10 - height;
Padding(height) == IF height < 10 THEN 10 - height ELSE 0

\* op_type == STOP: the height of the Column found for the pid, at least 10
FcStop ==
    \E e \in DumpEntries :
        /\ e.op_type = STOP
        /\ ReadEntry(e)
        /\ LET cid == find_col_by_pid(e.pid) IN
           \E col \in ColumnAt(cid) :
              LET height == (top_pos + 1) - col.mar_top IN
              /\ top_pos' = (top_pos + 1) + Padding(height)
              /\ columns' = IF cid >= 0
                            THEN [columns EXCEPT ![cid + 1].height = FinalHeight(height)]
                            ELSE columns
              /\ Accessed(Outside(cid, "stop"))
        /\ UNCHANGED << next_column, num_pri_columns, port_to_col, arrows >>

\* The port a bind or connect names: the fifth conversion of the sscanf, or
\* what the uninitialised local holds when there is none.
PortsOf(s1) ==
    LET got == ScanAddress(s1, 1, 1, <<>>) IN
    IF Len(got) = 5 THEN { got[5] } ELSE Garbage

\* op_type == BIND: port_to_col[port] = cid
FcBind ==
    \E e \in DumpEntries :
        /\ e.op_type = BIND
        /\ ReadEntry(e)
        /\ LET cid == find_col_by_pid(e.pid) IN
           \E port \in PortsOf(e.s1) :
              /\ IF port >= 0 /\ port < 65536
                 THEN port_to_col' =
                         [p \in DOMAIN port_to_col \cup {port} |->
                             IF p = port THEN cid ELSE port_to_col[p]]
                 ELSE UNCHANGED port_to_col
              /\ Accessed(Outside(cid, "bind") \cup
                     (IF port >= 0 /\ port < 65536 THEN {} ELSE {"bind_port"}))
        /\ top_pos' = top_pos + 1
        /\ UNCHANGED << columns, next_column, num_pri_columns, arrows >>

\* op_type == CONNECT: an Arrow from the Column of the pid to the Column
\* that port_to_col gives for the port
FcConnect ==
    \E e \in DumpEntries :
        /\ e.op_type = CONNECT
        /\ ReadEntry(e)
        /\ LET scid == find_col_by_pid(e.pid)
               got == ScanAddress(e.s1, 1, 1, <<>>)
           IN  \E port \in PortsOf(e.s1) :
               \E tcid \in (IF port >= 0 /\ port < 65536
                            THEN { PortToCol(port) } ELSE Garbage) :
               \E src \in ColumnAt(scid), dst \in ColumnAt(tcid) :
                  /\ arrows' = Append(arrows,
                        [ from_x |-> src.mar_left + COL_WIDTH \div 2,
                          to_x |-> dst.mar_left + COL_WIDTH \div 2,
                          y_point |-> (top_pos + 1) + 5,
                          description |->
                              [ text |-> "Connec to to",
                                address |-> SubSeq(got, 1, IF Len(got) < 4
                                                          THEN Len(got) ELSE 4),
                                port |-> port ] ])
                  /\ Accessed(Outside(scid, "connect_source")
                        \cup Outside(tcid, "connect_target")
                        \cup (IF port >= 0 /\ port < 65536 THEN {} ELSE {"connect_port"})
                        \cup (IF num_arrows < MAX_ARROWS THEN {} ELSE {"arrow_slot"}))
        /\ top_pos' = (top_pos + 1) + 10
        /\ UNCHANGED << columns, next_column, num_pri_columns, port_to_col >>

\* Any other op_type: only top_pos++
FcOther ==
    \E e \in DumpEntries :
        /\ e.op_type \notin {START, STOP, BIND, CONNECT}
        /\ ReadEntry(e)
        /\ top_pos' = top_pos + 1
        /\ UNCHANGED << columns, next_column, num_pri_columns, port_to_col,
                        arrows, fc_pc, out_of_bounds >>

\* After the loop (i == num_entries, or the break): top_pos += 20 and every
\* Column whose height is under 5 gets the rows down to the end.
FcBackfill ==
    /\ fc_pc \in {"loop", "break"}
    /\ top_pos' = top_pos + 20
    /\ columns' = [i \in 1..num_columns |->
                      IF columns[i].height < 5
                      THEN [columns[i] EXCEPT
                               !.height = (top_pos + 20) - columns[i].mar_top]
                      ELSE columns[i]]
    /\ fc_pc' = "done"
    /\ UNCHANGED << monitorVars, dump, next_column, num_pri_columns,
                    port_to_col, arrows, out_of_bounds >>

\* ------------------------------------------------------- specifications
\* The steps of an entry point: the lazy resolution, the wrapper's body,
\* and the transport.
Resolve(t) ==
    \/ CheckLoadedFns(t)
    \/ InitializeMonitor(t)
    \/ LoadCheck(t)
    \/ LoadConfig(t)
    \/ LoadOpen(t)
    \/ LoadRest(t)

Body(t) == Orig(t) \/ Record(t) \/ Return(t)

Transport(t) ==
    \/ SendMsgQueue(t)
    \/ TcpSocket(t)
    \/ TcpConnect(t)
    \/ TcpWriteHeader(t)
    \/ TcpWriteRecord(t)
    \/ TcpClose(t)

Step(t) ==
    \/ CallInit(t) \/ CallFini(t) \/ CallWrapper(t)
    \/ Resolve(t) \/ Body(t) \/ Transport(t)

\* A single-threaded monitored process and the collector.
Next == Step(MainThread) \/ CollectorAttach \/ CollectorReceive

Spec == Init /\ [][Next]_vars

\* Two threads of a monitored process started without a domain list, so
\* that every event ends at the domain filter; either thread may be inside
\* an interposed function before init has run.
InitMT ==
    /\ Init
    /\ env.MESSAGE_QUEUE_PATH = NULL
    /\ env.MONITOR_DOMAINS = NULL

NextMT ==
    \E t \in Threads :
        CallInit(t) \/ Call(t, ThreadCalls) \/ Resolve(t) \/ Body(t)

SpecMT == InitMT /\ [][NextMT]_vars

\* Two threads of a monitored process that delivers every Domain through
\* the socket backend.
SockEnvironments ==
    [ FACILITY_ID : {NULL},
      MESSAGE_QUEUE_PATH : {NULL},
      START_ON_OPEN : {NULL},
      MONITOR_DOMAINS : {Ptr(<<"ALL">>)},
      START_ON_ELAPSED : {NULL},
      HOST : {"healthy"} ]

InitSock == env \in SockEnvironments /\ Statics

\* The call each of the two threads makes.
SockCalls == { [fn |-> "fsync", fd |-> 5, s1 |-> NULL, count |-> 0] }

NextSock ==
    \E t \in Threads :
        \/ CallInit(t) \/ Call(t, SockCalls) \/ Resolve(t) \/ Body(t)
        \/ TcpSocket(t) \/ TcpConnect(t)
        \/ TcpWriteHeader(t) \/ TcpWriteRecord(t) \/ TcpClose(t)

SpecSock == InitSock /\ [][NextSock]_vars

\* A process that opens and creates files through open and open64.
OpenCalls ==
    { [fn |-> w, fd |-> FD_NONE, s1 |-> Ptr(<<"/", "x">>), count |-> 0,
       flags |-> a.flags, mode |-> a.mode] :
        w \in {"open", "open64"},
        a \in { [flags |-> {}, mode |-> "none"],
                [flags |-> {"O_CREAT"}, mode |-> "0600"],
                [flags |-> {"O_CREAT"}, mode |-> "0644"] } }

InitOpen ==
    /\ Init
    /\ env.MESSAGE_QUEUE_PATH # NULL /\ env.START_ON_OPEN = NULL
    /\ env.MONITOR_DOMAINS \in {NULL, Ptr(<<"FILE_OPEN_CLOSE", "BOGUS", "START_STOP">>)}

NextOpen ==
    \/ CallInit(MainThread) \/ Call(MainThread, OpenCalls)
    \/ Resolve(MainThread) \/ Body(MainThread) \/ SendMsgQueue(MainThread)

SpecOpen == InitOpen /\ [][NextOpen]_vars

\* A process that writes and reads streams and truncates files, its data
\* and space domains enabled or not.
BytesEnvironments ==
    [ FACILITY_ID : {NULL},
      MESSAGE_QUEUE_PATH : {Ptr(<<"/", "q">>)},
      START_ON_OPEN : {NULL},
      MONITOR_DOMAINS : {NULL, Ptr(<<"FILE_WRITE", "FILE_READ", "FILE_SPACE">>)},
      START_ON_ELAPSED : {NULL},
      HOST : {"any"} ]

BytesCalls ==
    { [fn |-> w, fd |-> 5, s1 |-> NULL, count |-> 0, size |-> a.size, nmemb |-> a.nmemb] :
        w \in {"fwrite", "fread"},
        a \in { [size |-> 1, nmemb |-> 1], [size |-> 4, nmemb |-> 2],
                [size |-> 1, nmemb |-> 3] } }
    \cup { [fn |-> "truncate", fd |-> FD_NONE, s1 |-> Ptr(<<"/", "x">>), count |-> 3],
           [fn |-> "ftruncate", fd |-> 5, s1 |-> NULL, count |-> 3] }

InitBytes == env \in BytesEnvironments /\ Statics

NextBytes ==
    \/ CallInit(MainThread) \/ Call(MainThread, BytesCalls)
    \/ Resolve(MainThread) \/ Body(MainThread) \/ SendMsgQueue(MainThread)

SpecBytes == InitBytes /\ [][NextBytes]_vars

\* The start and the exit of a process on an odd host.
StartEnvironments == { [e EXCEPT !.HOST = "odd"] : e \in Environments }

InitStart == env \in StartEnvironments /\ Statics

NextStart ==
    \/ CallInit(MainThread) \/ CallFini(MainThread)
    \/ Resolve(MainThread) \/ Body(MainThread) \/ Transport(MainThread)

SpecStart == InitStart /\ [][NextStart]_vars

\* The string fields of a record: a process with a facility id that is
\* absent, of 4 characters or longer, mounting with source and target paths
\* that are absent, fill their fields to the last free byte, or exceed them.
Chars(n) == [i \in 1..n |-> "a"]
FieldEnvironments ==
    [ FACILITY_ID : {NULL, Ptr(Chars(4)), Ptr(Chars(6))},
      MESSAGE_QUEUE_PATH : {Ptr(<<"/", "q">>)},
      START_ON_OPEN : {NULL},
      MONITOR_DOMAINS : {Ptr(<<"FILE_SYSTEMS">>)},
      START_ON_ELAPSED : {NULL},
      HOST : {"any"} ]

FieldCalls ==
    { [fn |-> "mount", fd |-> FD_NONE, s1 |-> source, s2 |-> target, count |-> 0] :
        source \in {NULL, Ptr(Chars(PATH_MAX - 1)), Ptr(Chars(PATH_MAX))},
        target \in {Ptr(Chars(STR_LEN - 1)), Ptr(Chars(STR_LEN))} }

InitFields == env \in FieldEnvironments /\ Statics

NextFields ==
    \/ CallInit(MainThread) \/ Call(MainThread, FieldCalls)
    \/ Resolve(MainThread) \/ Body(MainThread) \/ SendMsgQueue(MainThread)

SpecFields == InitFields /\ [][NextFields]_vars

\* The collector alone, attached to a queue that other processes write.
InitColl ==
    /\ Init
    /\ env.MESSAGE_QUEUE_PATH # NULL /\ env.MONITOR_DOMAINS = NULL
    /\ env.START_ON_OPEN = NULL

NextColl ==
    CollectorAttach \/ CollectorReceive \/ CollectorInterrupted \/ ForeignSend

SpecColl == InitColl /\ [][NextColl]_vars

\* One pass of the reconstructor over a dump of at most MaxEntries records.
InitRecon ==
    /\ Init
    /\ env.MESSAGE_QUEUE_PATH = NULL /\ env.MONITOR_DOMAINS = NULL
    /\ env.START_ON_OPEN = NULL /\ env.START_ON_ELAPSED = NULL

NextRecon == FcStart \/ FcStop \/ FcBind \/ FcConnect \/ FcOther \/ FcBackfill

SpecRecon == InitRecon /\ [][NextRecon]_vars

\* The reconstructor with its tables nearly full.  The pass has read a
\* prefix of the dump: a start of the python process 10, a start of its shell
\* child 11, a bind of 10, then nstarts further starts of pid 10 and
\* nconnects connects of pid 11 to the bound port.  PrefixColumns, PrefixArrows
\* and PrefixTop are the tables and the row counter that prefix leaves.
PrefixColumns(nstarts) ==
    [ i \in 1..(2 + nstarts) |->
        IF i = 2
        THEN [ pid |-> 11, ppid |-> 10, command |-> CmdShell, exe_fn |-> <<>>,
               mar_top |-> 202, mar_left |-> 15 + (COL_WIDTH * 2) \div 3,
               height |-> 5, primary |-> FALSE ]
        ELSE LET k == IF i = 1 THEN 0 ELSE i - 2 IN
             [ pid |-> 10, ppid |-> 1, command |-> CmdPython, exe_fn |-> <<>>,
               mar_top |-> IF i = 1 THEN 201 ELSE 203 + k,
               mar_left |-> MAIN_COL_SEP \div 2 + MAIN_COL_SEP * k,
               height |-> 0, primary |-> TRUE ] ]

PrefixArrows(nstarts, nconnects) ==
    [ j \in 1..nconnects |->
        [ from_x |-> 21 + COL_WIDTH \div 2,
          to_x |-> 15 + COL_WIDTH \div 2,
          y_point |-> (203 + nstarts + 11 * (j - 1)) + 1 + 5,
          description |-> [ text |-> "Connec to to",
                            address |-> << 127, 0, 0, 1 >>,
                            port |-> 9000 ] ] ]

PrefixTop(nstarts, nconnects) == 203 + nstarts + 11 * nconnects

\* The state after the prefix; dump holds the records read after it.
AfterPrefix(nstarts, nconnects) ==
    /\ dump = <<>>
    /\ top_pos = PrefixTop(nstarts, nconnects)
    /\ columns = PrefixColumns(nstarts)
    /\ next_column = ZeroColumn
    /\ num_pri_columns = 1 + nstarts
    /\ port_to_col = [p \in {9000} |-> 0]
    /\ arrows = PrefixArrows(nstarts, nconnects)
    /\ fc_pc = "loop"
    /\ out_of_bounds = {}

InitCap ==
    /\ env \in Environments
    /\ env.MESSAGE_QUEUE_PATH = NULL /\ env.MONITOR_DOMAINS = NULL
    /\ env.START_ON_OPEN = NULL /\ env.START_ON_ELAPSED = NULL
    /\ facility = <<>> /\ message_queue_path = NULL /\ domain_bit_flags = {}
    /\ start_on_open = NULL /\ paused = 0
    /\ have_elapsed_threshold = 0 /\ elapsed_threshold = 0
    /\ orig_open = "NULL" /\ orig_rest = "NULL" /\ init_runs = 0
    /\ socket_fd = -1 /\ failed_socket_connections = 0 /\ failed_ipc_sends = 0
    /\ message_queue_key = -1 /\ message_queue_id = -1
    /\ mq = <<>> /\ delivered = <<>>
    /\ stack = [t \in Threads |-> <<>>] /\ errno = [t \in Threads |-> "0"]
    /\ phase = "loaded" /\ crashed = "no"
    /\ coll_pc = "start" /\ coll_log = [kind |-> "none"]
    /\ AfterPrefix(MAX_COLUMNS - 3, MAX_ARROWS - 1)

NextCap == FcStart \/ FcConnect \/ FcOther \/ FcBackfill

SpecCap == InitCap /\ [][NextCap]_vars

\* ================================================================ claims
\* Positions of a frame inside send_msg_queue or send_tcp_socket.
SendPcs ==
    { "mq_send", "tcp_socket", "tcp_connect", "tcp_hdr", "tcp_hdr_wait",
      "tcp_body", "tcp_body_wait", "tcp_close", "tcp_close_wait" }

Frames == { <<t, i>> \in Threads \X (1..MaxDepth) : i <= Len(stack[t]) }
Frame(x) == stack[x[1]][x[2]]

\* Thread t is at the entry of record() with an event that is eligible: the
\* breaker is not tripped, the descriptor is neither the transport's nor a
\* standard stream (lifecycle events excepted), the domain is enabled, and
\* an open carries a path that is neither "." nor "..".
EligibleAtRecord(t) ==
    /\ At(t, "rec")
    /\ failed_socket_connections = 0
    /\ ~(socket_fd # -1 /\ Top(t).fd = socket_fd)
    /\ (Top(t).fd \in 0..2 => Top(t).fn \in {"init", "fini"})
    /\ WrapperDom(Top(t).fn) \in domain_bit_flags
    /\ (Top(t).fn \in {"open", "fopen64"} =>
            Top(t).s1 # {} /\ Top(t).s1 \notin {{<<".">>}, {<<".", ".">>}})

\* The step is thread t's pass through record().
RecordStep(t) == At(t, "rec") /\ stack'[t] # stack[t]

\* The step hands thread t's event to a transport backend.
Dispatched(t) ==
    /\ At(t, "rec")
    /\ stack'[t] # <<>>
    /\ stack'[t][Len(stack'[t])].pc \in {"mq_send", "tcp_socket"}

\* C1: an event whose Domain bit is not set in domain_bit_flags never
\* reaches send_msg_queue or send_tcp_socket, whatever the pause, breaker
\* and descriptor state.
C1_DisabledDomainNeverSent ==
    \A x \in Frames :
        Frame(x).pc \in SendPcs => WrapperDom(Frame(x).fn) \in domain_bit_flags

\* A write to a file of the application was discarded although the gate is
\* open, the breaker untripped and other domains are enabled.
C1_Witness ==
    /\ At(MainThread, "ret")
    /\ Top(MainThread).fn = "write" /\ Top(MainThread).fd = 7
    /\ FILE_WRITE \notin domain_bit_flags /\ FILE_OPEN_CLOSE \in domain_bit_flags
    /\ paused = 0 /\ failed_socket_connections = 0

\* C2: with START_ON_OPEN configured, nothing is dispatched while paused,
\* the pause is lifted only by an open whose path contains the substring,
\* the first eligible such open is itself dispatched, every eligible event
\* is dispatched once the pause is lifted, and the pause flag is never set
\* again after the library functions are loaded.
C2_PauseOnOpen ==
    [][env.START_ON_OPEN # {} =>
        \A t \in Threads :
            /\ Dispatched(t) => paused' = 0
            /\ (paused = 1 /\ paused' = 0) =>
                  \E u \in Threads :
                      /\ At(u, "rec") /\ Top(u).fn \in {"open", "fopen64"}
                      /\ Strstr(Str(Top(u).s1), Str(env.START_ON_OPEN))
            /\ (/\ RecordStep(t) /\ EligibleAtRecord(t)
                /\ Top(t).fn \in {"open", "fopen64"}
                /\ Strstr(Str(Top(t).s1), Str(env.START_ON_OPEN))) => Dispatched(t)
            /\ (RecordStep(t) /\ EligibleAtRecord(t) /\ paused = 0) => Dispatched(t)
            /\ (orig_open = "resolved" /\ paused = 0) => paused' = 0
    ]_vars

\* After the pause was lifted, a later write is being delivered.
C2_Witness ==
    /\ env.START_ON_OPEN # {} /\ paused = 0
    /\ At(MainThread, "tcp_socket") /\ Top(MainThread).fn = "write"

\* C3: once a connect() made by send_tcp_socket has failed, the counter
\* never returns to 0 and no later step calls socket() or connect().
C3_SocketBreaker ==
    [][failed_socket_connections > 0 =>
        /\ failed_socket_connections' > 0
        /\ \A t \in Threads :
              (At(t, "tcp_socket") \/ At(t, "tcp_connect")) => stack'[t] = stack[t]
    ]_vars

\* With the breaker tripped, a later event that every other gate would let
\* through has been discarded.
C3_Witness ==
    /\ failed_socket_connections > 0
    /\ At(MainThread, "ret") /\ Len(stack[MainThread]) = 1
    /\ Top(MainThread).fn = "write" /\ Top(MainThread).fd = 7
    /\ Top(MainThread).rc = 0
    /\ FILE_WRITE \in domain_bit_flags /\ paused = 0

\* Positions of a frame inside record() or the transport it called.
InRecord == SendPcs \cup {"rec"}

\* C4: in a single-threaded process the write() and close() that
\* send_tcp_socket makes on its socket are never dispatched, record() nests
\* at most one level deep, and socket_fd is FD_NONE whenever an event of the
\* application enters record().
C4_SelfExclusion ==
    /\ \A x \in Frames :
          /\ Frame(x).via = "transport" => Frame(x).pc \notin SendPcs
          /\ (Frame(x).via = "app" /\ Frame(x).pc = "rec") => socket_fd = -1
    /\ Cardinality({ x \in Frames : Frame(x).pc \in InRecord }) <= 2

\* The transport's write of the header has come back from record() while
\* only the self-exclusion rule stood between it and a delivery.
C4_Witness ==
    /\ Len(stack[MainThread]) = 2
    /\ stack[MainThread][1].pc = "tcp_hdr_wait"
    /\ At(MainThread, "ret") /\ Top(MainThread).via = "transport"
    /\ Top(MainThread).fd = socket_fd
    /\ FILE_WRITE \in domain_bit_flags /\ paused = 0
    /\ failed_socket_connections = 0

\* C5: an event on descriptor 0, 1 or 2 of any domain but START_STOP is
\* discarded, and a START_STOP event on descriptor 0 is dispatched whenever
\* its domain is enabled, the gate is not paused and the breaker not tripped.
C5_StandardStreams ==
    [][\A t \in Threads :
          /\ (/\ RecordStep(t) /\ Top(t).fd \in 0..2
              /\ Top(t).fn \notin {"init", "fini"}) =>
                 /\ stack'[t] # <<>>
                 /\ stack'[t][Len(stack'[t])].pc = "ret"
                 /\ paused' = paused
          /\ (/\ RecordStep(t) /\ Top(t).fn \in {"init", "fini"} /\ Top(t).fd = 0
              /\ START_STOP \in domain_bit_flags
              /\ paused = 0 /\ failed_socket_connections = 0) => Dispatched(t)
    ]_vars

\* The stop event of fini, on descriptor 0, is being delivered.
C5_Witness ==
    /\ At(MainThread, "tcp_socket")
    /\ Top(MainThread).fn = "fini" /\ Top(MainThread).fd = 0

\* C6: the telemetry layer never crashes the monitored process; an open
\* whose path parameter is absent is discarded or delivered with an empty
\* first string parameter, and the absent parameter is never dereferenced.
C6_AbsentPathNeverDereferenced == crashed # "null_string"

\* C7: when a wrapper is about to return to the application, errno is the
\* one the underlying operation left, whatever the transport did in between
\* (the returned value is the frame's ret, which no step after the
\* underlying operation assigns).
C7_ErrnoPreserved ==
    \A x \in Frames :
        (/\ Frame(x).via = "app" /\ Frame(x).pc = "ret"
         /\ Frame(x).fn \notin {"init", "fini"}) => errno[x[1]] = Frame(x).err0

\* C8: every intercepted entry point invokes the underlying operation once
\* and returns: no wrapper is entered again from its own body, and the
\* stack is never exhausted.
C8_EveryWrapperReturns ==
    /\ crashed # "stack_overflow"
    /\ \A x \in Frames : Frame(x).via # "self"

\* The ten fields that print_log_entry prints, as record() assembled them.
FieldsOf(rec) ==
    [ facility |-> rec.facility, timestamp |-> rec.timestamp,
      elapsed_time |-> rec.elapsed_time, pid |-> rec.pid,
      dom_type |-> rec.dom_type, op_type |-> rec.op_type,
      error_code |-> rec.error_code, fd |-> rec.fd,
      bytes_transferred |-> rec.bytes_transferred, s1 |-> rec.s1 ]

\* C9: whatever the collector has made of a message of the queue, it is the
\* record that record() assembled, field for field.
C9_RoundTrip ==
    coll_log.kind # "none" =>
        /\ coll_log.kind = "entry"
        /\ coll_log.line = FieldsOf(coll_log.of)

\* C10: the body of load_library_functions (the configuration read at its
\* head and the resolutions after it) executes at most once per process,
\* however many threads run CHECK_LOADED_FNS before it has finished.
C10_InitializedOnce == init_runs <= 1

\* C11: in every interleaving, a thread that is past CHECK_LOADED_FNS (about
\* to call its underlying operation, or inside record()) finds every orig_*
\* pointer resolved, and no thread ever calls through an unresolved one.
C11_ResolvedBeforeUse ==
    /\ crashed # "null_function_pointer"
    /\ \A x \in Frames :
          Frame(x).pc \in {"orig", "rec"} =>
              orig_open = "resolved" /\ orig_rest = "resolved"

\* The six records of the scenario: a Python server that binds port 9000
\* and its shell child that connects to it.
Scenario ==
    << DumpEntry(START, 10, CmdPython, << "1" >>),
       DumpEntry(BIND, 10, AddrAny, <<>>),
       DumpEntry(START, 11, CmdShell, << "1", "0" >>),
       DumpEntry(CONNECT, 11, AddrLoopback, <<>>),
       DumpEntry(STOP, 11, <<>>, <<>>),
       DumpEntry(STOP, 10, <<>>, <<>>) >>

\* C12: after the scenario has been read, find_columns holds exactly two
\* Columns, pid 10 primary and pid 11 secondary to its right, exactly one
\* Arrow from pid 11's Column to pid 10's naming port 9000, and both
\* Columns are at least 10 high.
C12_Scenario ==
    dump = Scenario =>
        /\ Len(columns) = 2 /\ num_pri_columns = 1
        /\ columns[1].pid = 10 /\ columns[1].primary
        /\ columns[2].pid = 11 /\ ~columns[2].primary
        /\ columns[2].mar_left > columns[1].mar_left
        /\ Len(arrows) = 1
        /\ arrows[1].from_x = columns[2].mar_left + 5
        /\ arrows[1].to_x = columns[1].mar_left + 5
        /\ arrows[1].description.port = 9000
        /\ columns[1].height >= 10 /\ columns[2].height >= 10

\* The pass over the scenario has ended.
C12_Witness == dump = Scenario /\ fc_pc = "done"

\* C13: while the pass runs, no two Columns that a start created and no
\* stop has finalized (height still under 10) have the same pid.
C13_OneLiveColumnPerPid ==
    fc_pc = "loop" =>
        \A i, j \in 1..Len(columns) :
            (/\ i # j /\ columns[i].pid = columns[j].pid
             /\ columns[i].height < 10) => columns[j].height >= 10

\* C14: the Arrow that a connect appends, every index being inside its
\* table, points at the Column that an earlier bind recorded for the port
\* of the connect.
C14_ArrowTargetsBinder ==
    [][(Len(arrows') = Len(arrows) + 1 /\ out_of_bounds' = {}) =>
        LET a == arrows'[Len(arrows')]
            port == a.description.port
        IN  /\ port \in DOMAIN port_to_col
            /\ port_to_col[port] \in 0..(Len(columns) - 1)
            /\ a.to_x = columns[port_to_col[port] + 1].mar_left + 5
    ]_vars

\* C15: at the end of the pass every Column whose pid was never stopped,
\* those created invisible included, is as high as the rows from its
\* creation to the final row counter.
C15_Backfilled ==
    fc_pc = "done" =>
        \A i \in 1..Len(columns) :
            (\A k \in 1..Len(dump) :
                ~(dump[k].op_type = STOP /\ dump[k].pid = columns[i].pid))
            => columns[i].height = top_pos - columns[i].mar_top

\* The step reads a stop whose pid has a Column; First is that Column.
StopOfColumn(i) ==
    /\ Len(dump') = Len(dump) + 1
    /\ dump'[Len(dump')].op_type = STOP
    /\ i \in 1..Len(columns)
    /\ columns[i].pid = dump'[Len(dump')].pid
    /\ \A j \in 1..(i - 1) : columns[j].pid # columns[i].pid

\* C16: a stop gives the Column of its pid the rows elapsed since its
\* creation, 10 at least, the row counter advancing by the shortfall; and a
\* Column or Arrow placed later lies below every Column a stop finalized.
C16_StopHeight ==
    [][/\ \A i \in 1..Len(columns) :
             StopOfColumn(i) =>
                LET elapsed == (top_pos + 1) - columns[i].mar_top IN
                /\ columns'[i].height = (IF elapsed < 10 THEN 10 ELSE elapsed)
                /\ columns'[i].height >= 10
                /\ top_pos' = (top_pos + 1) + (IF elapsed < 10 THEN 10 - elapsed ELSE 0)
                /\ \A j \in 1..Len(columns) : j # i => columns'[j] = columns[j]
       /\ \A i \in 1..Len(columns) :
             (columns[i].height >= 10 /\ fc_pc = "loop") =>
                /\ Len(columns') = Len(columns) + 1 =>
                      columns'[Len(columns')].mar_top >
                          columns[i].mar_top + columns[i].height
                /\ Len(arrows') = Len(arrows) + 1 =>
                      arrows'[Len(arrows')].y_point >
                          columns[i].mar_top + columns[i].height
    ]_vars

\* A stop has just padded a Column to the minimum and moved the row counter
\* to the end of the padded span.
C16_Witness ==
    /\ fc_pc = "loop" /\ dump # <<>>
    /\ dump[Len(dump)].op_type = STOP
    /\ \E i \in 1..Len(columns) :
          /\ columns[i].pid = dump[Len(dump)].pid
          /\ columns[i].height = 10
          /\ top_pos = columns[i].mar_top + 10

\* C17: a start of a secondary process whose parent pid has no Column
\* changes neither the Columns nor their counts, and indexes the Column
\* table only inside it.
C17_OrphanDropped ==
    [][(/\ Len(dump') = Len(dump) + 1
        /\ dump'[Len(dump')].op_type = START
        /\ ~Strstr(dump'[Len(dump')].s1, << "p", "y", "t", "h", "o", "n" >>)
        /\ \A i \in 1..Len(columns) :
              columns[i].pid # Atoi(dump'[Len(dump')].s2)) =>
            /\ columns' = columns
            /\ num_pri_columns' = num_pri_columns
            /\ out_of_bounds' = {}
    ]_vars

\* C18: every record the Queue backend has put on the queue is received by
\* the collector and printed as one line, in order: a receive that returns
\* while a message waits takes the head of the queue off it and prints it,
\* so no message keeps the ones behind it waiting.
C18_RecordsDelivered ==
    [][(coll_pc = "loop" /\ mq # <<>> /\ coll_log' # coll_log) =>
            /\ mq' = Tail(mq)
            /\ coll_log'.kind = "entry"
    ]_vars

\* C19: once attached, the collector's loop never ends, whatever the
\* receives return: a receive that fails or delivers nothing prints rc and
\* errno, and the collector is in its loop after every step.
C19_LoopNeverEnds ==
    [][coll_pc = "loop" =>
            /\ coll_pc' = "loop"
            /\ (coll_log' # coll_log /\ (mq' = mq \/ Head(mq).size = 0)) =>
                  coll_log'.kind = "error"
    ]_vars

\* C20: the Queue backend never disables itself: a send_msg_queue entered
\* with a queue path configured either holds a queue, on which it calls
\* msgsnd, or holds no key, so that it derives one and calls msgget again.
C20_NeverDisabled ==
    [][\A t \in Threads :
          (/\ At(t, "mq_send") /\ stack'[t] # stack[t]
           /\ message_queue_path # NULL) =>
              \/ message_queue_id # MQ_KEY_NONE
              \/ message_queue_key = MQ_KEY_NONE
    ]_vars

\* C21: with START_ON_ELAPSED configured, alone or together with
\* START_ON_OPEN, an eligible event whose elapsed time exceeds the threshold
\* lifts the pause and is dispatched, and so is every eligible event that
\* finds the pause lifted.
C21_PauseOnElapsed ==
    [][env.START_ON_ELAPSED # {} =>
        \A t \in Threads :
            /\ (/\ RecordStep(t) /\ EligibleAtRecord(t)
                /\ Top(t).elapsed > Str(env.START_ON_ELAPSED)) =>
                    Dispatched(t) /\ paused' = 0
            /\ (RecordStep(t) /\ EligibleAtRecord(t) /\ paused = 0) => Dispatched(t)
    ]_vars

\* The Domains whose names are among the tokens of a list.
NamedIn(list) ==
    { d \in 0..(END_DOMAINS - 1) :
        \E k \in 1..Len(list) : list[k] = domains_names[d + 1] }

\* What C22 says of the bitmask once initialization has set it, the literal
\* that enables every Domain being all_literal.
DomainMaskAsSpecified(all_literal) ==
    orig_open = "resolved" =>
        /\ env.MONITOR_DOMAINS = {} => domain_bit_flags = {}
        /\ env.MONITOR_DOMAINS = {all_literal} =>
              \A d \in 0..(END_DOMAINS - 1) : d \in domain_bit_flags
        /\ env.MONITOR_DOMAINS \notin {{}, {all_literal}} =>
              domain_bit_flags = NamedIn(CHOOSE l \in env.MONITOR_DOMAINS : TRUE)
        /\ domain_bit_flags = {} =>
              \A x \in Frames : Frame(x).pc \notin SendPcs

\* C22 (as stated): the bitmask set at initialization enables every Domain
\* for the list "all", exactly the named Domains for a comma-separated list,
\* and no Domain for an absent list, and then nothing is ever dispatched.
C22_DomainMask_all == DomainMaskAsSpecified(<<"all">>)

\* C22 (amended): the same, the literal that enables every Domain being
\* "ALL" in capitals; the list "all" names no Domain and enables none.
C22_DomainMask == DomainMaskAsSpecified(<<"ALL">>)

\* Initialization has looked up a list of two Domain names and a name the
\* Taxonomy does not have, and an event of a named Domain is dispatched.
C22_Witness ==
    /\ orig_open = "resolved"
    /\ env.MONITOR_DOMAINS = {<<"FILE_OPEN_CLOSE", "BOGUS", "START_STOP">>}
    /\ domain_bit_flags = {FILE_OPEN_CLOSE, START_STOP}
    /\ At(MainThread, "tcp_socket") /\ Top(MainThread).fn = "open"

\* Positions of send_tcp_socket at which it holds the socket it created.
ConnectedPcs ==
    { "tcp_hdr", "tcp_hdr_wait", "tcp_body", "tcp_body_wait", "tcp_close",
      "tcp_close_wait" }

\* C23: send_tcp_socket opens a connection, writes the 10 bytes of the
\* header on it, writes the record only after all 10 were written and asks
\* for exactly the record's length, and closes the socket; when it returns,
\* no socket it created is left open and socket_fd is FD_NONE.
C23_SocketProtocol ==
    \A x \in Frames :
        LET f == Frame(x)
            called == stack[x[1]][x[2] + 1]
        IN  /\ f.pc \in ConnectedPcs => f.sockfd # -1 /\ socket_fd = f.sockfd
            /\ f.pc \in {"tcp_hdr_wait", "tcp_body_wait"} =>
                  /\ called.fn = "write" /\ called.fd = f.sockfd
                  /\ called.pc \in {"check", "orig"} =>
                        called.nbytes = IF f.pc = "tcp_hdr_wait" THEN 10
                                        ELSE RecordSize
            /\ f.pc \in {"tcp_body", "tcp_body_wait"} => f.rc = 10
            /\ f.pc = "tcp_close_wait" =>
                  called.fn = "close" /\ called.fd = f.sockfd
            /\ (f.pc = "ret" /\ f.via = "app") =>
                  f.sockfd = -1 /\ socket_fd = -1

\* C24: an event that passes every gate of record() is handed to one
\* backend, the queue if and only if MESSAGE_QUEUE_PATH is configured; a
\* backend is entered only from record(), only the configured backend ever
\* acts, and an entry point that has reached its return is only left, so
\* that nothing is delivered a second time.
C24_OneBackend ==
    [][\A t \in Threads :
          LET top == stack'[t][Len(stack'[t])] IN
          /\ (RecordStep(t) /\ EligibleAtRecord(t) /\ paused' = 0) => Dispatched(t)
          /\ Dispatched(t) =>
                (top.pc = "mq_send" <=> env.MESSAGE_QUEUE_PATH # {})
          /\ (/\ stack'[t] # stack[t] /\ stack'[t] # <<>>
              /\ top.pc \in {"mq_send", "tcp_socket"}) => At(t, "rec")
          /\ (At(t, "ret") /\ stack'[t] # stack[t]) =>
                /\ Len(stack'[t]) = Len(stack[t]) - 1
                /\ mq' = mq
          /\ mq' # mq /\ Len(mq') > Len(mq) => env.MESSAGE_QUEUE_PATH # {}
          /\ socket_fd' # socket_fd => env.MESSAGE_QUEUE_PATH = {}
    ]_vars

\* With a queue path configured, an open was put on the queue and its entry
\* point is about to return; no socket was ever opened.
C24_Witness ==
    /\ env.MESSAGE_QUEUE_PATH # {}
    /\ At(MainThread, "ret") /\ Top(MainThread).fn = "open"
    /\ mq # <<>> /\ mq[Len(mq)].rec.op_type = OPEN
    /\ socket_fd = -1

\* C25: the bytes_transferred field of the record of a write is the number
\* of bytes the write transferred, and 0 when the write failed: it is never
\* the image of a negative return value in the unsigned field.
C25_BytesTransferred ==
    \A x \in Frames :
        (Frame(x).pc \in SendPcs /\ Frame(x).fn = "write") =>
            LET field == RecordOutput(Frame(x)).bytes_transferred IN
            /\ field.k = 0
            /\ field.r = IF Frame(x).ret < 0 THEN 0 ELSE Frame(x).ret

\* The longest prefix of a source that leaves room for the terminator in a
\* field of cap bytes; an absent source gives the empty string.
Fitted(source, cap) ==
    IF source = {} THEN <<>>
    ELSE LET str == CHOOSE x \in source : TRUE
         IN  [i \in 1..(IF Len(str) < cap - 1 THEN Len(str) ELSE cap - 1) |-> str[i]]

\* C26: in every record that record() hands to the queue, the facility, s1
\* and s2 are terminated inside their fields of 256, PATH_MAX and 256 bytes
\* and hold the longest prefix of their source that fits; an absent source
\* gives an empty field, and the facility is the first 4 characters at most
\* of FACILITY_ID, or "u".
C26_StringFields ==
    [][\A t \in Threads :
          (At(t, "mq_send") /\ Len(mq') = Len(mq) + 1) =>
              LET r == mq'[Len(mq')].rec IN
              /\ Len(r.facility) < 256 /\ Len(r.s1) < PATH_MAX /\ Len(r.s2) < 256
              /\ r.s1 = Fitted(Top(t).s1, PATH_MAX)
              /\ r.s2 = Fitted(Top(t).s2, 256)
              /\ r.facility = IF env.FACILITY_ID = {} THEN << "u" >>
                              ELSE Fitted(env.FACILITY_ID, 5)
    ]_vars

\* A record is on the queue whose facility was cut to 4 characters, whose
\* s1 was cut to PATH_MAX - 1 and whose s2 was cut to 255.
C26_Witness ==
    /\ mq # <<>>
    /\ Len(mq[1].rec.facility) = 4 /\ env.FACILITY_ID = {Chars(6)}
    /\ Len(mq[1].rec.s1) = PATH_MAX - 1
    /\ Len(mq[1].rec.s2) = 255
    /\ stack[MainThread] = <<>>

\* Thread t is at the entry of record() with an event that one of the
\* gates before the pause logic discards: the breaker is tripped, the
\* descriptor is the transport's or a standard stream, or the Domain is
\* not enabled.
DiscardedBeforePause(t) ==
    /\ At(t, "rec")
    /\ \/ failed_socket_connections > 0
       \/ socket_fd # -1 /\ Top(t).fd = socket_fd
       \/ Top(t).fd \in 0..2 /\ Top(t).fn \notin {"init", "fini"}
       \/ WrapperDom(Top(t).fn) \notin domain_bit_flags

\* C27: while paused, an event that the self-exclusion rules or the domain
\* filter discard leaves the pause set and is not dispatched, even an open
\* whose path contains the START_ON_OPEN substring; the pause is lifted only
\* by the pass through record() of an eligible event that matches a
\* trigger, and nothing is dispatched while the pause is set.
C27_TriggersAfterGates ==
    [][\A t \in Threads :
          /\ (RecordStep(t) /\ paused = 1 /\ DiscardedBeforePause(t)) =>
                paused' = 1 /\ ~Dispatched(t)
          /\ (paused = 1 /\ paused' = 0) =>
                \E u \in Threads :
                    /\ RecordStep(u) /\ EligibleAtRecord(u)
                    /\ \/ /\ Top(u).fn \in {"open", "fopen64"}
                          /\ start_on_open # {}
                          /\ Strstr(Str(Top(u).s1), Str(start_on_open))
                       \/ /\ have_elapsed_threshold = 1
                          /\ Top(u).elapsed > elapsed_threshold
          /\ Dispatched(t) => paused' = 0
    ]_vars

\* While paused, an open of a path containing the substring has come back
\* from record() undelivered because it returned descriptor 1, the Domain of
\* opens being enabled.
C27_Witness ==
    /\ paused = 1 /\ start_on_open = {<< "t" >>}
    /\ FILE_OPEN_CLOSE \in domain_bit_flags
    /\ At(MainThread, "ret") /\ Top(MainThread).fn = "open"
    /\ Top(MainThread).fd = 1 /\ Top(MainThread).s1 = {<< "/", "t" >>}
    /\ failed_socket_connections = 0

\* C28: failed_socket_connections changes only where connect() fails; a
\* write of the header or of the record that comes back short leaves it at
\* 0, and with the counter at 0 every eligible event of the socket backend
\* that finds the pause lifted goes on to socket() and a new connection.
C28_OnlyConnectTrips ==
    [][/\ failed_socket_connections' # failed_socket_connections =>
             \E t \in Threads : At(t, "tcp_connect") /\ stack'[t] # stack[t]
       /\ \A t \in Threads :
             /\ (/\ At(t, "ret") /\ Len(stack[t]) > 1 /\ stack'[t] # stack[t]
                 /\ stack[t][Len(stack[t]) - 1].pc \in {"tcp_hdr_wait", "tcp_body_wait"}) =>
                    failed_socket_connections' = 0
             /\ (/\ RecordStep(t) /\ EligibleAtRecord(t) /\ paused' = 0
                 /\ env.MESSAGE_QUEUE_PATH = {}) =>
                    stack'[t][Len(stack'[t])].pc = "tcp_socket"
    ]_vars

\* After a delivery that failed, a later event has connected, its write
\* came back short, and the breaker is still at 0.
C28_Witness ==
    /\ failed_ipc_sends = 1 /\ failed_socket_connections = 0
    /\ At(MainThread, "tcp_close") /\ Top(MainThread).rc = -1

\* C29: send_tcp_socket returns 0 exactly when the 10 bytes of the header
\* and the whole record were written: it returns non-zero when socket()
\* fails, when connect() fails and when either write is short, and
\* failed_ipc_sends goes up by one for a failed delivery and stays for a
\* successful one.
C29_ZeroIffDelivered ==
    [][\A t \in Threads :
          LET n == Len(stack[t])
              top == stack'[t][Len(stack'[t])]
          IN
          /\ (At(t, "tcp_socket") /\ stack'[t] # stack[t] /\ top.pc = "ret") =>
                top.rc # 0 /\ failed_ipc_sends' = failed_ipc_sends + 1
          /\ (At(t, "tcp_connect") /\ stack'[t] # stack[t] /\ top.pc = "tcp_close") =>
                top.rc # 0
          /\ (At(t, "ret") /\ n > 1 /\ stack'[t] # stack[t]) =>
                LET parent == stack[t][n - 1] IN
                /\ (parent.pc = "tcp_hdr_wait" /\ Top(t).ret # 10) => top.rc # 0
                /\ parent.pc = "tcp_body_wait" =>
                      (top.rc = 0 <=> Top(t).ret = RecordSize)
                /\ parent.pc = "tcp_close_wait" =>
                      /\ top.rc = parent.rc
                      /\ failed_ipc_sends' =
                            failed_ipc_sends + (IF parent.rc # 0 THEN 1 ELSE 0)
    ]_vars

\* C30: with two threads delivering through the socket backend at once, a
\* write() or close() that send_tcp_socket makes on its own socket is never
\* handed to a backend itself, whatever the order in which the threads
\* assign the shared socket_fd.
C30_SelfExclusionMT ==
    \A t \in Threads : \A i \in 1..Len(stack[t]) :
        stack[t][i].via = "transport" =>
            stack[t][i].pc \notin
                { "tcp_socket", "tcp_connect", "tcp_hdr", "tcp_hdr_wait",
                  "tcp_body", "tcp_body_wait", "tcp_close", "tcp_close_wait" }

\* C31: in the sequence of records the process delivers, a stop record comes
\* only after a start record of the process, whatever the configuration.
C31_StartBeforeStop ==
    \A i \in 1..Len(delivered) :
        delivered[i] = STOP => \E j \in 1..(i - 1) : delivered[j] = START

\* The pid of the process that started the monitored one (its getppid()).
ParentPid == 4241

\* C32: the start record init emits carries the parent pid in s2, the field
\* the reconstructor converts with atoi to find the parent's Column: every
\* start record handed to a backend or waiting on the queue reads back as
\* the parent pid.
C32_StartCarriesParentPid ==
    /\ \A x \in Frames :
          (Frame(x).pc \in SendPcs /\ Frame(x).fn = "init") =>
              Atoi(RecordOutput(Frame(x)).s2) = ParentPid
    /\ \A i \in 1..Len(mq) :
          mq[i].rec.op_type = START => Atoi(mq[i].rec.s2) = ParentPid

\* The step reads a stop, bind or connect whose pid has no Column, or a
\* connect whose port no bind has recorded.
OrphanEvent ==
    /\ Len(dump') = Len(dump) + 1
    /\ LET e == dump'[Len(dump')]
           got == ScanAddress(e.s1, 1, 1, <<>>)
       IN  /\ e.op_type \in {STOP, BIND, CONNECT}
           /\ \/ \A i \in 1..Len(columns) : columns[i].pid # e.pid
              \/ e.op_type = CONNECT /\ Len(got) = 5 /\ got[5] \notin DOMAIN port_to_col

\* C33: a stop, bind or connect whose pid has no Column, and a connect whose
\* port maps to no recorded Column, indexes the Column table only inside
\* [0, num_columns) and leaves all existing Columns unchanged.
C33_OrphanEventsRecoverable ==
    [][OrphanEvent =>
            /\ out_of_bounds' = {}
            /\ fc_pc' = "loop"
            /\ columns' = columns
            /\ \A p \in DOMAIN port_to_col' :
                  port_to_col'[p] >= 0 /\ port_to_col'[p] < Len(columns)
    ]_vars

\* C34: after every processed event 0 <= num_columns <= MAX_COLUMNS,
\* 0 <= num_pri_columns <= num_columns and 0 <= num_arrows <= MAX_ARROWS,
\* and no Arrow has been written past the end of its table.
C34_Capacity ==
    /\ Len(columns) <= MAX_COLUMNS
    /\ 0 <= num_pri_columns /\ num_pri_columns <= Len(columns)
    /\ Len(arrows) <= MAX_ARROWS
    /\ "arrow_slot" \notin out_of_bounds

\* The step reads a stop of a pid whose most recent start created Column i,
\* every earlier Column of the pid having been finalized by a stop.
StopOfLatestColumn(i) ==
    /\ Len(dump') = Len(dump) + 1
    /\ dump'[Len(dump')].op_type = STOP
    /\ i \in 1..Len(columns)
    /\ columns[i].pid = dump'[Len(dump')].pid
    /\ columns[i].height < 10
    /\ \A j \in (i + 1)..Len(columns) : columns[j].pid # columns[i].pid
    /\ \A j \in 1..(i - 1) :
          columns[j].pid = columns[i].pid => columns[j].height >= 10

\* C35: with a pid used again (start, stop, start, stop), each stop
\* finalizes the Column the most recent start of the pid created and leaves
\* the height of an earlier, already finalized Column of the pid unchanged.
C35_StopFinalizesLatest ==
    [][\A i \in 1..Len(columns) :
          StopOfLatestColumn(i) =>
              /\ columns'[i].height >= 10
              /\ \A j \in 1..(i - 1) :
                    columns[j].pid = columns[i].pid =>
                        columns'[j].height = columns[j].height
    ]_vars

\* Positions of a wrapper after its call of the underlying operation.
AfterOrig == {"rec", "ret"} \cup SendPcs

\* C36: when open or open64 is called with a creation flag and a mode, the
\* underlying open receives that same mode, so the created file gets the
\* permissions the caller asked for.
C36_ModeForwarded ==
    \A x \in Frames :
        (/\ Frame(x).fn \in {"open", "open64"}
         /\ Frame(x).pc \in AfterOrig
         /\ Frame(x).ret # -1
         /\ "O_CREAT" \in Frame(x).flags) =>
            Frame(x).orig_mode = Frame(x).mode

\* C37: the byte count fwrite and fread record is the number of items
\* transferred times the item size, for all size and nmemb.
C37_StreamByteCount ==
    \A x \in Frames :
        (/\ Frame(x).fn \in {"fwrite", "fread"}
         /\ Frame(x).pc \in {"rec"} \cup SendPcs) =>
            RecordOutput(Frame(x)).bytes_transferred =
                [k |-> 0, r |-> Frame(x).ret * Frame(x).size]

\* C38: truncate and ftruncate record the same error code for the same
\* outcome of the underlying call: errno when it returned non-zero, 0
\* otherwise.
C38_TruncateErrorCode ==
    \A x \in Frames :
        (/\ Frame(x).fn \in {"truncate", "ftruncate"}
         /\ Frame(x).pc \in {"rec"} \cup SendPcs) =>
            RecordOutput(Frame(x)).error_code =
                (IF Frame(x).ret # 0 THEN Frame(x).err0 ELSE "0")

\* C39: whatever the read of the command line returned, init's loop over
\* the separators ends having touched only bytes that were read, and the
\* start event is handed to record().
C39_CmdlineLoop ==
    [][\A t \in Threads :
          (At(t, "orig") /\ Top(t).fn = "init" /\ orig_rest # "NULL"
              /\ << stack, crashed >>' # << stack, crashed >>) =>
                /\ out_of_bounds' = {}
                /\ crashed' = "no"
                /\ stack'[t] # <<>>
                /\ stack'[t][Len(stack'[t])].pc = "rec"
                /\ stack'[t][Len(stack'[t])].fn = "init"
    ]_vars

\* C40: for every payload the collector receives and hands to
\* print_log_entry (a receive of more than 0 bytes), complete, cut short or
\* malformed, the codes it indexes domains_names[] and ops_names[] with lie
\* inside the tables: 0 <= dom_type < END_DOMAINS and 0 <= op_type < END_OPS.
C40_LookupInTables ==
    [][(/\ coll_pc = "loop" /\ mq # <<>>
        /\ Head(mq).size > 0 /\ Head(mq).size <= CollectorBufSize
        /\ mq' = Tail(mq)) =>
            LET line == print_log_entry(PayloadTokens(Head(mq)))
            IN  /\ line.dom_type \in 0..(END_DOMAINS - 1)
                /\ line.op_type \in 0..(END_OPS - 1)
    ]_vars

====
